---- MODULE Spec2Model ----
(***************************************************************************)
(* Model of the CNAB 240/400 remittance validators (package validators/    *)
(* and the web handler app.py).  The validators are functions of an        *)
(* ordered sequence of text lines; a line is the sequence of its           *)
(* characters, so that slicing, str.isdigit(), str.strip() and int() are   *)
(* modelled by what they do to the characters; entrada is the string given *)
(* to the functions of one string (digitable line, CNPJ, date field).      *)
(* tabelas holds the module-level tables, relogio the date the last run    *)
(* has read from the clock, antes the result of the run before the last.   *)
(* app.py imports the validators by name from validador_cnab.py; the       *)
(* functions that module defines have the same definitions as in           *)
(* validators/.                                                            *)
(***************************************************************************)
EXTENDS Integers, Sequences, FiniteSets, TLC

VARIABLES linhas, entrada, tabelas, op, ret, relogio, antes

vars == <<linhas, entrada, tabelas, op, ret, relogio, antes>>

(***************************************************************************)
(* Bounds of the model.                                                    *)
(***************************************************************************)
MaxLinhas == 3

(***************************************************************************)
(* Characters.  The files are decoded as latin-1, so besides the decimal   *)
(* digits the superscript digits (bytes B2, B3, B9) can occur: for them    *)
(* str.isdigit() is True while int() raises ValueError.  "sup2" stands for *)
(* such a character; the other characters stand for themselves.            *)
(***************************************************************************)
Dec == {"0", "1", "2", "3", "4", "5", "6", "7", "8", "9"}

SupDigit == {"sup2"}

Espaco == {" "}

DecVal(c) ==
    CASE c = "0" -> 0 [] c = "1" -> 1 [] c = "2" -> 2 [] c = "3" -> 3
      [] c = "4" -> 4 [] c = "5" -> 5 [] c = "6" -> 6 [] c = "7" -> 7
      [] c = "8" -> 8 [] c = "9" -> 9

DecChar(n) ==
    CASE n = 0 -> "0" [] n = 1 -> "1" [] n = 2 -> "2" [] n = 3 -> "3"
      [] n = 4 -> "4" [] n = 5 -> "5" [] n = 6 -> "6" [] n = 7 -> "7"
      [] n = 8 -> "8" [] n = 9 -> "9"

Min(a, b) == IF a <= b THEN a ELSE b

\* str.isdigit(): non-empty and every character is a digit character.
isdigit(s) == Len(s) > 0 /\ \A i \in 1..Len(s) : s[i] \in Dec \cup SupDigit

\* int(s) raises ValueError unless s is a decimal literal.
int_raises(s) == Len(s) = 0 \/ \E i \in 1..Len(s) : s[i] \notin Dec

\* int(s) for a decimal literal.
RECURSIVE int(_)
int(s) ==
    IF Len(s) = 0 THEN 0
    ELSE 10 * int(SubSeq(s, 1, Len(s) - 1)) + DecVal(s[Len(s)])

\* s == "" after strip(): only whitespace.
AllSpace(s) == \A i \in 1..Len(s) : s[i] \in Espaco

\* str.strip()
RECURSIVE lstrip(_)
lstrip(s) == IF Len(s) > 0 /\ s[1] \in Espaco THEN lstrip(Tail(s)) ELSE s

RECURSIVE rstrip(_)
rstrip(s) ==
    IF Len(s) > 0 /\ s[Len(s)] \in Espaco
    THEN rstrip(SubSeq(s, 1, Len(s) - 1)) ELSE s

strip(s) == lstrip(rstrip(s))

\* s.strip("0") == ""
SoZeros(s) == \A i \in 1..Len(s) : s[i] = "0"

\* The text of a file: n written as a zero-padded decimal field of width w.
RECURSIVE Zeros(_, _)
Zeros(n, w) ==
    IF w = 0 THEN <<>> ELSE Append(Zeros(n \div 10, w - 1), DecChar(n % 10))

\* A field of width w filled with the character c.
Fill(c, w) == [i \in 1..w |-> c]

(***************************************************************************)
(* Lines.  A line is the sequence of its characters after the line         *)
(* terminator has been removed (str.splitlines() in app.py, rstrip("\n\r") *)
(* in the validators).  Pos names the slices the validators take, with the *)
(* 0-based half-open bounds of the code.                                   *)
(***************************************************************************)
Pos ==
    [ banco |-> <<0, 3>>,    lote  |-> <<3, 7>>,    tipo  |-> <<7, 8>>,
      seq   |-> <<8, 13>>,   seg   |-> <<13, 14>>,  q18   |-> <<17, 23>>,
      q24   |-> <<23, 29>>,  s400  |-> <<394, 400>>,
      operacao |-> <<8, 9>>, servico |-> <<9, 11>>, cod_mov |-> <<15, 17>>,
      convenio |-> <<33, 42>>, carteira |-> <<46, 48>>,
      nosso_numero |-> <<37, 57>>, codigo_carteira |-> <<57, 58>>,
      data_vencimento |-> <<77, 85>>, valor_titulo |-> <<85, 100>>,
      data_header |-> <<94, 102>>, banco400 |-> <<76, 79>>,
      literal_remessa |-> <<2, 9>>, literal_servico |-> <<11, 19>>,
      literal |-> <<79, 94>>,
      tipo_inscricao |-> <<15, 17>>, documento_sacado |-> <<17, 32>>,
      nome_sacado |-> <<33, 73>>, endereco_sacado |-> <<73, 113>>,
      cep_sacado |-> <<128, 136>>, uf_sacado |-> <<151, 153>>,
      bairro_sacado |-> <<113, 128>>, cidade_sacado |-> <<136, 151>>,
      tipo400 |-> <<0, 1>>, texto400 |-> <<1, 394>>,
      valor400 |-> <<126, 139>>, qtd_trailer400 |-> <<17, 25>>,
      valor_trailer400 |-> <<25, 39>>,
      valor_sisdeb |-> <<119, 134>>, valor_brb |-> <<195, 209>>,
      cod_desc2 |-> <<17, 18>>, cod_desc3 |-> <<41, 42>>,
      cod_multa |-> <<65, 66>>, data_multa |-> <<66, 74>>,
      valor_multa |-> <<74, 89>>, banco_deb |-> <<207, 210>> ]

\* linha[a:b] of Python: truncated at the end of the line, never raising.
Slice(l, f) == SubSeq(l, Pos[f][1] + 1, Min(Pos[f][2], Len(l)))

\* The field of a line at the 0-based half-open bounds [a, b).
Trecho(l, a, b) == SubSeq(l, a + 1, Min(b, Len(l)))

\* linha.strip() == ""
EmBranco(l) == AllSpace(l)

\* A line of n spaces.
Branca(n) == Fill(" ", n)

\* The line l with the text s written at the start of field f.
Com(l, f, s) ==
    [i \in 1..Len(l) |->
        IF i > Pos[f][1] /\ i - Pos[f][1] <= Len(s) /\ i <= Pos[f][2]
        THEN s[i - Pos[f][1]] ELSE l[i]]

\* A CNAB 240 record of bank 001 with the given batch, type and length.
Reg240(n, lote, tipo) ==
    Com(Com(Com(Branca(n), "banco", <<"0", "0", "1">>), "lote", lote), "tipo", <<tipo>>)

\* The sequences of at most n elements of S.
SeqAte(S, n) == UNION { [1..k -> S] : k \in 0..n }

(***************************************************************************)
(* Results.  A call either returns a value or raises.                      *)
(***************************************************************************)
Retorno(v) == [exc |-> "", val |-> v]

Levanta(e) == [exc |-> e, val |-> <<>>]

Erro(cod, linha, lote, a, b) ==
    [cod |-> cod, linha |-> linha, lote |-> lote, a |-> a, b |-> b]

(***************************************************************************)
(* validators/base.py                                                      *)
(***************************************************************************)
\* The lengths of all the lines, the blank ones too: tamanhos without its
\* filter `if linha.strip() != ""`.
tamanhos_de_todas(ls) == { Len(ls[i]) : i \in 1..Len(ls) }

\* The lengths of the non-blank lines.
tamanhos(ls) == { Len(ls[i]) : i \in { j \in 1..Len(ls) : ~EmBranco(ls[j]) } }

detectar_layout(ls) ==
    IF tamanhos(ls) = {240} THEN [int |-> TRUE, layout |-> 240, set |-> {}]
    ELSE IF tamanhos(ls) = {400} THEN [int |-> TRUE, layout |-> 400, set |-> {}]
    ELSE [int |-> FALSE, layout |-> 0, set |-> tamanhos(ls)]

\* The concatenation of a sequence of sequences.
RECURSIVE Flatten(_)
Flatten(ss) ==
    IF Len(ss) = 0 THEN <<>> ELSE Head(ss) \o Flatten(Tail(ss))

\* The elements of s in order of first appearance (the keys of a dict filled
\* in that order).
RECURSIVE Unicos(_)
Unicos(s) ==
    IF Len(s) = 0 THEN <<>>
    ELSE LET r == Unicos(SubSeq(s, 1, Len(s) - 1))
         IN  IF \E i \in 1..Len(r) : r[i] = s[Len(s)] THEN r
             ELSE Append(r, s[Len(s)])

\* The elements of a set of line numbers, in increasing order.
RECURSIVE Ordenados(_)
Ordenados(S) ==
    IF S = {} THEN <<>>
    ELSE LET m == CHOOSE x \in S : \A y \in S : y <= x
         IN  Append(Ordenados(S \ {m}), m)

\* The largest of a set of line numbers, 0 when the set is empty.
Maior(S) == IF S = {} THEN 0 ELSE CHOOSE x \in S : \A y \in S : y <= x

(***************************************************************************)
(* validators/cnab240/common.py: structure of a CNAB 240 file.             *)
(***************************************************************************)
tipos_validos == {<<"0">>, <<"1">>, <<"2">>, <<"3">>, <<"4">>, <<"5">>, <<"9">>}

\* Index of the last non-blank line, 0 when there is none.
RECURSIVE ultima_linha_idx(_, _)
ultima_linha_idx(ls, i) ==
    IF i >= 1 /\ EmBranco(ls[i]) THEN ultima_linha_idx(ls, i - 1) ELSE i

validar_estrutura_basica_cnab240(ls) ==
    IF Len(ls) = 0 THEN Levanta("IndexError")
    ELSE
    LET tipo_header == Slice(ls[1], "tipo")
        e_header == IF tipo_header # <<"0">>
                    THEN <<Erro("header_invalido", 1, <<>>, 0, 0)>> ELSE <<>>
        u == ultima_linha_idx(ls, Len(ls))
        e_trailer == IF Slice(ls[u], "tipo") # <<"9">>
                     THEN <<Erro("trailer_invalido", u, <<>>, 0, 0)>> ELSE <<>>
        e_linha(i) ==
            IF EmBranco(ls[i]) THEN <<>>
            ELSE IF Len(ls[i]) < 8 THEN <<Erro("linha_curta", i, <<>>, 0, 0)>>
            ELSE IF Slice(ls[i], "tipo") \notin tipos_validos
                 THEN <<Erro("tipo_invalido", i, <<>>, 0, 0)>>
            ELSE <<>>
    IN  IF u < 1
        THEN Retorno(e_header \o <<Erro("todas_em_branco", 0, <<>>, 0, 0)>>)
        ELSE Retorno(e_header \o e_trailer
                     \o Flatten([i \in 1..Len(ls) |-> e_linha(i)]))

\* The lines that validar_lotes_cnab240 files under a batch.
em_lote(l) ==
    /\ ~EmBranco(l)
    /\ Len(l) >= 8
    /\ Slice(l, "tipo") \notin {<<"0">>, <<"9">>}

\* The flag as it would be if only the first line of a batch could set it:
\* a batch whose header does not come first would count as having none.
lote_tem_na_abertura(ls, lote, tipo) ==
    \E i \in 1..Len(ls) :
        /\ em_lote(ls[i]) /\ Slice(ls[i], "lote") = lote /\ Slice(ls[i], "tipo") = tipo
        /\ \A j \in 1..(i - 1) : ~(em_lote(ls[j]) /\ Slice(ls[j], "lote") = lote)

\* lotes[numero_lote][flag] after the scan: some line of the batch has the type.
lote_tem(ls, lote, tipo) ==
    \E i \in 1..Len(ls) :
        em_lote(ls[i]) /\ Slice(ls[i], "lote") = lote /\ Slice(ls[i], "tipo") = tipo

validar_lotes_cnab240(ls) ==
    LET e_curta(i) ==
            IF ~EmBranco(ls[i]) /\ Len(ls[i]) < 8
            THEN <<Erro("linha_curta", i, <<>>, 0, 0)>> ELSE <<>>
        idx == Ordenados({ i \in 1..Len(ls) : em_lote(ls[i]) })
        lotes == Unicos([k \in 1..Len(idx) |-> Slice(ls[idx[k]], "lote")])
        e_lote(lote) ==
            (IF ~lote_tem(ls, lote, <<"1">>)
             THEN <<Erro("sem_header", 0, lote, 0, 0)>> ELSE <<>>)
            \o (IF ~lote_tem(ls, lote, <<"5">>)
                THEN <<Erro("sem_trailer", 0, lote, 0, 0)>> ELSE <<>>)
            \o (IF ~lote_tem(ls, lote, <<"3">>)
                THEN <<Erro("sem_detalhe", 0, lote, 0, 0)>> ELSE <<>>)
    IN  Retorno(Flatten([i \in 1..Len(ls) |-> e_curta(i)])
                \o Flatten([k \in 1..Len(lotes) |-> e_lote(lotes[k])]))

\* The lines that validar_qtd_registros_lote_cnab240 counts under a batch.
conta_no_lote(l) ==
    /\ Len(l) >= 8
    /\ ~AllSpace(Slice(l, "lote"))
    /\ Slice(l, "tipo") \notin {<<"0">>, <<"9">>}

\* info["linhas_idx"] of a batch: the line numbers filed under it.
linhas_idx(ls, lote) ==
    Ordenados({ i \in 1..Len(ls) : conta_no_lote(ls[i]) /\ Slice(ls[i], "lote") = lote })

\* info["trailer"] of a batch: the index of its last type-5 line, 0 for None.
trailer_do_lote(ls, lote) ==
    LET t == Ordenados({ i \in 1..Len(ls) : /\ conta_no_lote(ls[i])
                                    /\ Slice(ls[i], "lote") = lote
                                    /\ Slice(ls[i], "tipo") = <<"5">> })
    IN  IF Len(t) = 0 THEN 0 ELSE t[Len(t)]

validar_qtd_registros_lote_cnab240(ls) ==
    LET idx == Ordenados({ i \in 1..Len(ls) : conta_no_lote(ls[i]) })
        lotes == Unicos([k \in 1..Len(idx) |-> Slice(ls[idx[k]], "lote")])
        qtd_str(lote) == Slice(ls[trailer_do_lote(ls, lote)], "q18")
        levanta(lote) ==
            /\ trailer_do_lote(ls, lote) # 0
            /\ Len(ls[trailer_do_lote(ls, lote)]) >= 23
            /\ isdigit(qtd_str(lote))
            /\ int_raises(qtd_str(lote))
        e_lote(lote) ==
            LET t == trailer_do_lote(ls, lote)
                qtd_real == Len(linhas_idx(ls, lote))
            IN  IF t = 0 THEN <<>>
                ELSE IF Len(ls[t]) < 23
                     THEN <<Erro("trailer_curto", t, lote, 0, 0)>>
                ELSE IF ~isdigit(qtd_str(lote))
                     THEN <<Erro("qtd_nao_numerica", t, lote, 0, 0)>>
                ELSE IF qtd_real # int(qtd_str(lote))
                     THEN <<Erro("qtd_lote_difere", 0, lote,
                                 int(qtd_str(lote)), qtd_real)>>
                ELSE <<>>
    IN  IF \E k \in 1..Len(lotes) : levanta(lotes[k]) THEN Levanta("ValueError")
        ELSE Retorno(Flatten([k \in 1..Len(lotes) |-> e_lote(lotes[k])]))

\* The actual number of records that validar_totais_arquivo_cnab240 compares
\* with the file trailer: len(linhas).
qtd_regs_real(ls) == Len(ls)

validar_totais_arquivo_cnab240(ls) ==
    LET t == Ordenados({ i \in 1..Len(ls) : Len(ls[i]) >= 29 /\ Slice(ls[i], "tipo") = <<"9">> })
    IN  IF Len(ls) = 0 \/ Len(t) = 0 THEN Retorno(<<>>)
        ELSE
        LET idx_trailer == t[1]
            qtd_lotes_str == Slice(ls[idx_trailer], "q18")
            qtd_regs_str == Slice(ls[idx_trailer], "q24")
            qtd_lotes_real ==
                Len(Ordenados({ i \in 1..Len(ls) : Len(ls[i]) >= 8 /\ Slice(ls[i], "tipo") = <<"1">> }))
        IN  IF ~isdigit(qtd_lotes_str)
            THEN Retorno(<<Erro("qtd_lotes_nao_numerica", idx_trailer, <<>>, 0, 0)>>)
            ELSE IF ~isdigit(qtd_regs_str)
            THEN Retorno(<<Erro("qtd_regs_nao_numerica", idx_trailer, <<>>, 0, 0)>>)
            ELSE IF int_raises(qtd_lotes_str) \/ int_raises(qtd_regs_str)
            THEN Levanta("ValueError")
            ELSE Retorno(
                (IF qtd_lotes_real # int(qtd_lotes_str)
                 THEN <<Erro("qtd_lotes_difere", 0, <<>>,
                             int(qtd_lotes_str), qtd_lotes_real)>> ELSE <<>>)
                \o (IF qtd_regs_real(ls) # int(qtd_regs_str)
                    THEN <<Erro("qtd_regs_difere", 0, <<>>,
                                int(qtd_regs_str), qtd_regs_real(ls))>> ELSE <<>>))

\* The type-3 lines whose sequence field validar_sequencia_registros_lote reads.
detalhe_com_seq(l) ==
    /\ ~EmBranco(l)
    /\ Len(l) >= 13
    /\ Slice(l, "tipo") = <<"3">>

\* The expected sequence number after prev_seq.
esperado(prev_seq) == prev_seq + 1

validar_sequencia_registros_lote(ls) ==
    LET num == Ordenados({ i \in 1..Len(ls) : detalhe_com_seq(ls[i]) /\ isdigit(Slice(ls[i], "seq")) })
        e_nao_num(i) ==
            IF detalhe_com_seq(ls[i]) /\ ~isdigit(Slice(ls[i], "seq"))
            THEN <<Erro("seq_nao_numerica", i, Slice(ls[i], "lote"), 0, 0)>>
            ELSE <<>>
        lotes == Unicos([k \in 1..Len(num) |-> Slice(ls[num[k]], "lote")])
        \* registros_por_lote[lote]: the line numbers, in file order
        regs(lote) == Ordenados({ i \in 1..Len(ls) : /\ detalhe_com_seq(ls[i])
                                             /\ isdigit(Slice(ls[i], "seq"))
                                             /\ Slice(ls[i], "lote") = lote })
        seq(i) == int(Slice(ls[i], "seq"))
        e_reg(lote, k) ==
            LET r == regs(lote)
            IN  IF k > 1 /\ seq(r[k]) # esperado(seq(r[k - 1]))
                THEN <<Erro("seq_fora", r[k], lote, seq(r[k]),
                            esperado(seq(r[k - 1])))>>
                ELSE <<>>
        e_lote(lote) == Flatten([k \in 1..Len(regs(lote)) |-> e_reg(lote, k)])
    IN  IF \E k \in 1..Len(num) : int_raises(Slice(ls[num[k]], "seq"))
        THEN Levanta("ValueError")
        ELSE Retorno(Flatten([i \in 1..Len(ls) |-> e_nao_num(i)])
                     \o Flatten([k \in 1..Len(lotes) |-> e_lote(lotes[k])]))

(***************************************************************************)
(* More of str: upper(), replace(" ", ""), lstrip("0"), the digits of a    *)
(* text, substring test.                                                   *)
(***************************************************************************)
upper(s) ==
    [i \in 1..Len(s) |->
        CASE s[i] = "a" -> "A" [] s[i] = "p" -> "P" [] s[i] = "q" -> "Q"
          [] s[i] = "r" -> "R" [] s[i] = "x" -> "X" [] OTHER -> s[i]]

\* The characters of s that are in the set C, in order.
RECURSIVE Filtro(_, _)
Filtro(s, C) ==
    IF Len(s) = 0 THEN <<>>
    ELSE IF s[Len(s)] \in C
         THEN Append(Filtro(SubSeq(s, 1, Len(s) - 1), C), s[Len(s)])
         ELSE Filtro(SubSeq(s, 1, Len(s) - 1), C)

\* s.replace(" ", "")
sem_espacos(s) == Filtro(s, { s[i] : i \in 1..Len(s) } \ {" "})

\* "".join(ch for ch in s if ch.isdigit())
so_digitos(s) == Filtro(s, Dec \cup SupDigit)

\* convenio.lstrip("0") left out: the convenio is taken with its zeros.
sem_lstrip_zeros(s) == s

RECURSIVE lstrip_zeros(_)
lstrip_zeros(s) == IF Len(s) > 0 /\ s[1] = "0" THEN lstrip_zeros(Tail(s)) ELSE s

\* t[:n]
Prefixo(t, n) == SubSeq(t, 1, Min(n, Len(t)))

\* `parte in texto`
Contem(texto, parte) ==
    \E k \in 0..(Len(texto) - Len(parte)) : SubSeq(texto, k + 1, k + Len(parte)) = parte

Aviso(cod, linha) == [cod |-> cod, linha |-> linha]

(***************************************************************************)
(* validators/base.py: identificar_banco; common.py: the bank code of      *)
(* every line; cnab240/itau_sisdeb.py: detection of the SISDEB layout.     *)
(***************************************************************************)
\* The keys of BANCOS_CNAB.
BANCOS_CNAB ==
    { <<"0", "0", "1">>, <<"0", "7", "0">>, <<"1", "0", "4">>, <<"2", "0", "8">>,
      <<"2", "3", "7">>, <<"3", "4", "1">>, <<"0", "3", "3">>, <<"7", "5", "6">>,
      <<"7", "4", "8">> }

identificar_banco(header_line) == Slice(header_line, "banco")

validar_codigo_banco_consistente(ls, codigo_banco_esperado) ==
    LET e(i) == IF ~EmBranco(ls[i]) /\ Slice(ls[i], "banco") # codigo_banco_esperado
                THEN <<Erro("banco_difere", i, <<>>, 0, 0)>> ELSE <<>>
    IN  Retorno(Flatten([i \in 1..Len(ls) |-> e(i)]))

\* The detection had it gone on after the first type-3 line.
detectar_sisdeb_em_qualquer_linha(ls) ==
    \E i \in 1..Len(ls) : /\ ~EmBranco(ls[i])
                          /\ Len(ls[i]) >= 14
                          /\ Slice(ls[i], "tipo") = <<"3">>
                          /\ upper(Slice(ls[i], "seg")) = <<"A">>

detectar_cnab240_itau_sisdeb(ls) ==
    LET d == Ordenados({ i \in 1..Len(ls) : /\ ~EmBranco(ls[i])
                                    /\ Len(ls[i]) >= 14
                                    /\ Slice(ls[i], "tipo") = <<"3">> })
    IN  Len(d) > 0 /\ upper(Slice(ls[d[1]], "seg")) = <<"A">>

(***************************************************************************)
(* validators/cnab240/bb.py: the two rule packs of Banco do Brasil.  Both  *)
(* return the pair (erros, avisos).                                        *)
(***************************************************************************)
carteiras_mais_comuns ==
    {<<"1", "1">>, <<"1", "2">>, <<"1", "7">>, <<"3", "1">>, <<"5", "1">>}

\* The lines both loops of the convenio pack look at.
linha_bb(l, tipo) == Len(l) >= 60 /\ Slice(l, "tipo") = tipo

\* lotes_info[lote]: the index of the last batch header of the batch, 0 when
\* the batch has none.
lotes_info(ls, lote) ==
    Maior({ i \in 1..Len(ls) : linha_bb(ls[i], <<"1">>) /\ Slice(ls[i], "lote") = lote })

avisos_header_lote_bb(l, idx) ==
    LET convenio == strip(Slice(l, "convenio"))
        carteira == strip(Slice(l, "carteira"))
    IN  (IF Len(convenio) = 0 THEN <<Aviso("convenio_nao_informado", idx)>>
         ELSE IF ~isdigit(convenio) THEN <<Aviso("convenio_nao_numerico", idx)>>
         ELSE IF Len(lstrip_zeros(convenio)) \notin {4, 6, 7}
              THEN <<Aviso("convenio_tamanho", idx)>>
         ELSE <<>>)
        \o (IF Len(carteira) = 0 THEN <<>>
            ELSE IF ~isdigit(carteira) THEN <<Aviso("carteira_nao_numerica", idx)>>
            ELSE IF carteira \notin carteiras_mais_comuns
                 THEN <<Aviso("carteira_incomum", idx)>>
            ELSE <<>>)

avisos_segmento_p_bb(ls, idx) ==
    LET l == ls[idx]
        h == lotes_info(ls, Slice(l, "lote"))
        convenio == strip(Slice(ls[h], "convenio"))
        conv_digits == lstrip_zeros(convenio)
        conv_len == Len(conv_digits)
        nn_bruto == rstrip(Slice(l, "nosso_numero"))
        nn_digitos == so_digitos(sem_espacos(nn_bruto))
        tam_nn == Len(nn_digitos)
        numero_carteira == strip(Slice(ls[h], "carteira"))
        e_tam(n) == IF tam_nn # n THEN <<Aviso("nn_tamanho", idx)>> ELSE <<>>
        e_prefixo == IF tam_nn >= conv_len /\ Prefixo(nn_digitos, conv_len) # conv_digits
                     THEN <<Aviso("nn_prefixo", idx)>> ELSE <<>>
    IN  IF h = 0 \/ Len(convenio) = 0 \/ ~isdigit(convenio) THEN <<>>
        ELSE IF Len(sem_espacos(nn_bruto)) = 0 THEN <<Aviso("nn_nao_informado", idx)>>
        ELSE (IF conv_len \in {4, 6} THEN e_tam(12) \o e_prefixo
              ELSE IF conv_len = 7 THEN e_tam(17) \o e_prefixo
              ELSE <<>>)
             \o (IF Len(numero_carteira) > 0 /\ AllSpace(Slice(l, "codigo_carteira"))
                 THEN <<Aviso("codigo_carteira_em_branco", idx)>> ELSE <<>>)

\* The pack as it would be if a non-numeric convenio were reported in erros
\* instead of avisos.
erros_convenio_bb_estrito(ls) ==
    LET e(i) == IF /\ linha_bb(ls[i], <<"1">>)
                   /\ Len(strip(Slice(ls[i], "convenio"))) > 0
                   /\ ~isdigit(strip(Slice(ls[i], "convenio")))
                THEN <<Erro("convenio_nao_numerico", i, Slice(ls[i], "lote"), 0, 0)>>
                ELSE <<>>
    IN  Flatten([i \in 1..Len(ls) |-> e(i)])

\* What the pack appends to erros while it scans the file: nothing.
erros_convenio_bb(ls) == <<>>

validar_convenio_carteira_nosso_numero_bb(ls) ==
    LET a1(i) == IF linha_bb(ls[i], <<"1">>) THEN avisos_header_lote_bb(ls[i], i)
                 ELSE <<>>
        a2(i) == IF linha_bb(ls[i], <<"3">>) /\ Slice(ls[i], "seg") = <<"P">>
                 THEN avisos_segmento_p_bb(ls, i) ELSE <<>>
    IN  Retorno([erros |-> erros_convenio_bb(ls),
                 avisos |-> Flatten([i \in 1..Len(ls) |-> a1(i)])
                            \o Flatten([i \in 1..Len(ls) |-> a2(i)])])

(***************************************************************************)
(* Calendar: datetime(ano, mes, dia) raises ValueError unless the date is  *)
(* a real calendar date of the years 1..9999.  Dates are <<ano, mes, dia>>.*)
(***************************************************************************)
bissexto(ano) == (ano % 4 = 0 /\ ano % 100 # 0) \/ ano % 400 = 0

dias_no_mes(ano, mes) ==
    IF mes = 2 THEN (IF bissexto(ano) THEN 29 ELSE 28)
    ELSE IF mes \in {4, 6, 9, 11} THEN 30 ELSE 31

data_valida(ano, mes, dia) ==
    /\ ano \in 1..9999
    /\ mes \in 1..12
    /\ dia \in 1..dias_no_mes(ano, mes)

\* d1 < d2
data_antes(d1, d2) ==
    \/ d1[1] < d2[1]
    \/ d1[1] = d2[1] /\ d1[2] < d2[2]
    \/ d1[1] = d2[1] /\ d1[2] = d2[2] /\ d1[3] < d2[3]

codigos_mov_validos ==
    {<<"0", "1">>, <<"0", "2">>, <<"0", "4">>, <<"0", "5">>, <<"0", "6">>,
     <<"0", "9">>, <<"1", "0">>, <<"1", "8">>, <<"3", "1">>}

nn_permitido == Dec \cup {"X", "x"}

\* The Segment P lines the advanced pack examines.
segmento_p_bb(l) ==
    /\ ~EmBranco(l)
    /\ Len(l) >= 160
    /\ Slice(l, "tipo") = <<"3">>
    /\ upper(Slice(l, "seg")) = <<"P">>

\* An int() of the Segment P checks raises: the due date or the value is made
\* of digit characters that are not decimal digits.
levanta_segmento_p_bb(l) ==
    \/ isdigit(strip(Slice(l, "data_vencimento")))
         /\ Len(strip(Slice(l, "data_vencimento"))) = 8
         /\ int_raises(strip(Slice(l, "data_vencimento")))
    \/ isdigit(strip(Slice(l, "valor_titulo")))
         /\ int_raises(strip(Slice(l, "valor_titulo")))

\* The warnings of one Segment P: movement code, due date, value, Nosso Numero.
avisos_avancados_p_bb(l, idx, hoje) ==
    LET cod_mov == strip(Slice(l, "cod_mov"))
        data_raw == strip(Slice(l, "data_vencimento"))
        dia == int(SubSeq(data_raw, 1, 2))
        mes == int(SubSeq(data_raw, 3, 4))
        ano == int(SubSeq(data_raw, 5, 8))
        valor_raw == strip(Slice(l, "valor_titulo"))
        nn_raw == strip(Slice(l, "nosso_numero"))
    IN  (IF Len(cod_mov) > 0 /\ (~isdigit(cod_mov) \/ Len(cod_mov) # 2)
         THEN <<Aviso("cod_mov_fora_do_padrao", idx)>>
         ELSE IF Len(cod_mov) > 0 /\ cod_mov \notin codigos_mov_validos
         THEN <<Aviso("cod_mov_incomum", idx)>>
         ELSE <<>>)
        \o (IF Len(data_raw) > 0 /\ (~isdigit(data_raw) \/ Len(data_raw) # 8)
            THEN <<Aviso("vencimento_formato", idx)>>
            ELSE IF isdigit(data_raw)
            THEN IF ~data_valida(ano, mes, dia)
                 THEN <<Aviso("vencimento_invalido", idx)>>
                 ELSE IF data_antes(<<ano, mes, dia>>, hoje)
                 THEN <<Aviso("vencimento_no_passado", idx)>>
                 ELSE <<>>
            ELSE <<>>)
        \o (IF ~isdigit(valor_raw) THEN <<Aviso("valor_nao_numerico", idx)>>
            ELSE IF int(valor_raw) = 0 THEN <<Aviso("valor_zero", idx)>>
            ELSE <<>>)
        \o (IF Len(nn_raw) = 0 THEN <<Aviso("nn_em_branco", idx)>>
            ELSE (IF \E k \in 1..Len(nn_raw) : nn_raw[k] \notin nn_permitido
                  THEN <<Aviso("nn_caracteres_invalidos", idx)>> ELSE <<>>)
                 \o (IF Len(nn_raw) < 5 THEN <<Aviso("nn_curto", idx)>> ELSE <<>>))

\* base.py, _parse_data_ddmmaaaa(valor) returns a date and not None.
e_data_ddmmaaaa(valor) ==
    /\ Len(valor) = 8 /\ isdigit(valor) /\ ~int_raises(valor)
    /\ data_valida(int(SubSeq(valor, 5, 8)), int(SubSeq(valor, 3, 4)),
                   int(SubSeq(valor, 1, 2)))

\* raw and raw.strip("0")
preenchido(raw) == Len(raw) > 0 /\ ~SoZeros(raw)

codigos_usuais_r == { <<"0">>, <<"1">>, <<"2">>, <<"3">> }

\* One of the three groups of checks of a Segment R: the code at the 0-based
\* position a, the date in the 8 characters after it and the value in the
\* 15 characters after the date.  com holds the codes that ask for a date and
\* a value, sem the codes that ask for neither.
avisos_grupo_r_bb(l, idx, a, nome, com, sem) ==
    LET cod == strip(Trecho(l, a, a + 1))
        data_raw == strip(Trecho(l, a + 1, a + 9))
        valor_raw == strip(Trecho(l, a + 9, a + 24))
    IN  (IF Len(cod) > 0 /\ cod \notin codigos_usuais_r
         THEN <<Aviso(<<nome, "codigo_incomum">>, idx)>> ELSE <<>>)
        \o (IF cod \in com
            THEN (IF ~e_data_ddmmaaaa(data_raw)
                  THEN <<Aviso(<<nome, "data_invalida">>, idx)>> ELSE <<>>)
                 \o (IF Len(valor_raw) = 0 \/ ~isdigit(valor_raw)
                     THEN <<Aviso(<<nome, "valor_nao_numerico">>, idx)>>
                     ELSE IF int(valor_raw) = 0
                     THEN <<Aviso(<<nome, "valor_zerado">>, idx)>>
                     ELSE <<>>)
            ELSE <<>>)
        \o (IF cod \in sem /\ (preenchido(data_raw) \/ preenchido(valor_raw))
            THEN <<Aviso(<<nome, "sem_codigo_e_preenchido">>, idx)>> ELSE <<>>)

\* An int() of a group raises.
levanta_grupo_r_bb(l, a, com) ==
    LET data_raw == strip(Trecho(l, a + 1, a + 9))
        valor_raw == strip(Trecho(l, a + 9, a + 24))
    IN  /\ strip(Trecho(l, a, a + 1)) \in com
        /\ \/ Len(data_raw) = 8 /\ isdigit(data_raw) /\ int_raises(data_raw)
           \/ isdigit(valor_raw) /\ int_raises(valor_raw)

\* The fields of the automatic debit: each is read when the line reaches
\* its end.
debito_r_bb(l, a, b) == IF Len(l) >= b THEN strip(Trecho(l, a, b)) ELSE <<>>

avisos_debito_r_bb(l, idx) ==
    LET banco_deb == debito_r_bb(l, 207, 210)
        ag_deb == debito_r_bb(l, 210, 215)
        conta_deb == debito_r_bb(l, 216, 228)
    IN  (IF Len(banco_deb) > 0 /\ ~isdigit(banco_deb)
         THEN <<Aviso(<<"debito", "banco_nao_numerico">>, idx)>> ELSE <<>>)
        \o (IF Len(ag_deb) > 0 /\ ~isdigit(ag_deb)
            THEN <<Aviso(<<"debito", "agencia_nao_numerica">>, idx)>> ELSE <<>>)
        \o (IF Len(conta_deb) > 0 /\ ~isdigit(conta_deb)
            THEN <<Aviso(<<"debito", "conta_nao_numerica">>, idx)>> ELSE <<>>)

\* The warnings of the Segment R block: the second and the third discount,
\* the fine and the automatic debit.
avisos_avancados_r_bb(l, idx) ==
    avisos_grupo_r_bb(l, idx, 17, "desconto2",
                      { <<"1">>, <<"2">>, <<"3">> }, { <<>>, <<"0">> })
    \o avisos_grupo_r_bb(l, idx, 41, "desconto3",
                         { <<"1">>, <<"2">>, <<"3">> }, { <<>>, <<"0">> })
    \o avisos_grupo_r_bb(l, idx, 65, "multa",
                         { <<"1">>, <<"2">> }, { <<>>, <<"0">>, <<"3">> })
    \o avisos_debito_r_bb(l, idx)

levanta_segmento_r_bb(l) ==
    \/ levanta_grupo_r_bb(l, 17, { <<"1">>, <<"2">>, <<"3">> })
    \/ levanta_grupo_r_bb(l, 41, { <<"1">>, <<"2">>, <<"3">> })
    \/ levanta_grupo_r_bb(l, 65, { <<"1">>, <<"2">> })

\* The lines that reach the Segment R block.  The block is the `elif
\* segmento == "R"` of the last `if` of the Segment Q block, the one of the
\* CEP: the line is a Segment Q of 160 characters or more, the test
\* `cfg_cep and len(linha) >= cfg_cep["end"]` has failed, segmento is "R",
\* and the line has 90 characters or more.
ramo_r_bb(l) ==
    /\ ~EmBranco(l)
    /\ Len(l) >= 160
    /\ Slice(l, "tipo") = <<"3">>
    /\ upper(Slice(l, "seg")) = <<"Q">>
    /\ ~(Len(l) >= Pos.cep_sacado[2])
    /\ upper(Slice(l, "seg")) = <<"R">>
    /\ Len(l) >= 90

\* What the pack appends to erros while it scans the file: nothing.
erros_avancados_bb(ls) == <<>>

\* The Segment P part and the Segment R part of the pack (the interest and
\* discount checks of the Segment P and the Segment Q part append to avisos
\* only); hoje is datetime.today().date().
validar_segmentos_avancados_bb(ls, hoje) ==
    LET a(i) == (IF segmento_p_bb(ls[i]) THEN avisos_avancados_p_bb(ls[i], i, hoje)
                 ELSE <<>>)
                \o (IF ramo_r_bb(ls[i]) THEN avisos_avancados_r_bb(ls[i], i)
                    ELSE <<>>)
    IN  IF \E i \in 1..Len(ls) :
              \/ segmento_p_bb(ls[i]) /\ levanta_segmento_p_bb(ls[i])
              \/ ramo_r_bb(ls[i]) /\ levanta_segmento_r_bb(ls[i])
        THEN Levanta("ValueError")
        ELSE Retorno([erros |-> erros_avancados_bb(ls),
                      avisos |-> Flatten([i \in 1..Len(ls) |-> a(i)])])

(***************************************************************************)
(* validators/cnab240/sicredi.py: the Sicredi rule pack.  It returns the   *)
(* dictionary {erros_header, erros_segmentos, avisos}.                     *)
(***************************************************************************)
Txt748 == <<"7", "4", "8">>

TxtSICREDI == <<"S", "I", "C", "R", "E", "D", "I">>

TxtREMESSA == <<"R", "E", "M", "E", "S", "S", "A">>

TxtCOBRANCA == <<"C", "O", "B", "R", "A", "N", "C", "A">>

ESTADOS_BR ==
    { <<"A","C">>, <<"A","L">>, <<"A","P">>, <<"A","M">>, <<"B","A">>, <<"C","E">>,
      <<"D","F">>, <<"E","S">>, <<"G","O">>, <<"M","A">>, <<"M","T">>, <<"M","S">>,
      <<"M","G">>, <<"P","A">>, <<"P","B">>, <<"P","R">>, <<"P","E">>, <<"P","I">>,
      <<"R","J">>, <<"R","N">>, <<"R","S">>, <<"R","O">>, <<"R","R">>, <<"S","C">>,
      <<"S","P">>, <<"S","E">>, <<"T","O">> }

\* The checks made on linhas[0] before the loop.
header_sicredi(header) ==
    [ erros_header |->
        (IF Slice(header, "banco") # Txt748
         THEN <<Erro("banco_nao_748", 1, <<>>, 0, 0)>> ELSE <<>>)
        \o (IF ~(Len(Slice(header, "data_header")) = 8 /\ isdigit(Slice(header, "data_header")))
            THEN <<Erro("data_geracao", 1, <<>>, 0, 0)>> ELSE <<>>),
      avisos |->
        (IF ~Contem(upper(strip(Slice(header, "literal"))), TxtSICREDI)
         THEN <<Aviso("literal_banco", 1)>> ELSE <<>>)
        \o (IF upper(strip(Slice(header, "literal_remessa"))) # TxtREMESSA
            THEN <<Aviso("literal_remessa", 1)>> ELSE <<>>)
        \o (IF upper(strip(Slice(header, "literal_servico"))) # TxtCOBRANCA
            THEN <<Aviso("literal_servico", 1)>> ELSE <<>>) ]

erros_lote_sicredi(l, n) ==
    (IF Slice(l, "servico") # <<"0", "1">>
     THEN <<Erro("servico", n, <<>>, 0, 0)>> ELSE <<>>)
    \o (IF Slice(l, "operacao") # <<"1">>
        THEN <<Erro("operacao", n, <<>>, 0, 0)>> ELSE <<>>)

levanta_p_sicredi(l) ==
    isdigit(strip(Slice(l, "valor_titulo"))) /\ int_raises(strip(Slice(l, "valor_titulo")))

erros_p_sicredi(l, n) ==
    LET nosso == strip(Slice(l, "nosso_numero"))
        data_venc == strip(Slice(l, "data_vencimento"))
        valor_raw == strip(Slice(l, "valor_titulo"))
    IN  (IF Slice(l, "banco") # Txt748
         THEN <<Erro("p_banco", n, <<>>, 0, 0)>> ELSE <<>>)
        \o (IF Len(nosso) > 0 /\ ~isdigit(nosso)
            THEN <<Erro("p_nosso_numero", n, <<>>, 0, 0)>> ELSE <<>>)
        \o (IF Len(data_venc) # 8 \/ ~isdigit(data_venc)
            THEN <<Erro("p_vencimento", n, <<>>, 0, 0)>> ELSE <<>>)
        \o (IF ~isdigit(valor_raw) THEN <<Erro("p_valor", n, <<>>, 0, 0)>>
            ELSE IF int(valor_raw) = 0 THEN <<Erro("p_valor_zero", n, <<>>, 0, 0)>>
            ELSE <<>>)
        \o (IF ~isdigit(Slice(l, "cod_mov"))
            THEN <<Erro("p_cod_mov", n, <<>>, 0, 0)>> ELSE <<>>)

erros_q_sicredi(l, n, ultimo_segmento_p) ==
    LET doc == strip(Slice(l, "documento_sacado"))
        cep == strip(Slice(l, "cep_sacado"))
    IN  (IF ~ultimo_segmento_p
         THEN <<Erro("q_antes_de_p", n, <<>>, 0, 0)>> ELSE <<>>)
        \o (IF strip(Slice(l, "tipo_inscricao")) \notin {<<"0", "1">>, <<"0", "2">>}
            THEN <<Erro("q_tipo_inscricao", n, <<>>, 0, 0)>> ELSE <<>>)
        \o (IF ~isdigit(doc) THEN <<Erro("q_documento", n, <<>>, 0, 0)>>
            ELSE IF doc = Fill("0", Len(doc))
            THEN <<Erro("q_documento_zero", n, <<>>, 0, 0)>>
            ELSE <<>>)
        \o (IF Len(strip(Slice(l, "nome_sacado"))) = 0
            THEN <<Erro("q_nome", n, <<>>, 0, 0)>> ELSE <<>>)
        \o (IF Len(strip(Slice(l, "endereco_sacado"))) = 0
            THEN <<Erro("q_endereco", n, <<>>, 0, 0)>> ELSE <<>>)
        \o (IF Len(cep) # 8 \/ ~isdigit(cep)
            THEN <<Erro("q_cep", n, <<>>, 0, 0)>> ELSE <<>>)
        \o (IF upper(strip(Slice(l, "uf_sacado"))) \notin ESTADOS_BR
            THEN <<Erro("q_uf", n, <<>>, 0, 0)>> ELSE <<>>)

\* One iteration of the loop: st is [ultimo_segmento_p, erros_header,
\* erros_segmentos, exc]; ultimo_segmento_p is the truth value of the variable.
passo_sicredi(st, l, n) ==
    LET tipo_registro == Slice(l, "tipo")
        segmento == upper(Slice(l, "seg"))
    IN  IF st.exc # "" \/ EmBranco(l) \/ Len(l) < 240 THEN st
        ELSE IF tipo_registro = <<"1">>
        THEN [st EXCEPT !.erros_header = @ \o erros_lote_sicredi(l, n)]
        ELSE IF tipo_registro = <<"3">> /\ segmento = <<"P">>
        THEN IF levanta_p_sicredi(l)
             THEN [st EXCEPT !.exc = "ValueError", !.ultimo_segmento_p = TRUE]
             ELSE [st EXCEPT !.ultimo_segmento_p = TRUE,
                             !.erros_segmentos = @ \o erros_p_sicredi(l, n)]
        ELSE IF tipo_registro = <<"3">> /\ segmento = <<"Q">>
        THEN [st EXCEPT !.erros_segmentos =
                            @ \o erros_q_sicredi(l, n, st.ultimo_segmento_p)]
        ELSE IF tipo_registro = <<"3">> /\ segmento \in {<<"R">>, <<"S">>, <<"Y">>}
        THEN [st EXCEPT !.erros_segmentos =
                            IF ~st.ultimo_segmento_p
                            THEN Append(@, Erro("sem_p_anterior", n, <<>>, 0, 0))
                            ELSE @]
        ELSE IF tipo_registro = <<"5">>
        THEN [st EXCEPT !.ultimo_segmento_p = FALSE]
        ELSE st

RECURSIVE laco_sicredi(_, _)
laco_sicredi(ls, n) ==
    IF n = 0
    THEN [ultimo_segmento_p |-> FALSE, erros_header |-> <<>>,
          erros_segmentos |-> <<>>, exc |-> ""]
    ELSE passo_sicredi(laco_sicredi(ls, n - 1), ls[n], n)

validar_cnab240_sicredi(ls) ==
    IF Len(ls) = 0
    THEN Retorno([erros_header |-> <<>>, erros_segmentos |-> <<>>, avisos |-> <<>>])
    ELSE LET h == header_sicredi(ls[1])
             st == laco_sicredi(ls, Len(ls))
         IN  IF st.exc # "" THEN Levanta(st.exc)
             ELSE Retorno([erros_header |-> h.erros_header \o st.erros_header,
                           erros_segmentos |-> st.erros_segmentos,
                           avisos |-> h.avisos])

(***************************************************************************)
(* validators/cnab400: the running check of the sequence field (positions  *)
(* 395-400) that opens the loop of every bank's validator.  The operators  *)
(* give the sequence errors among erros_registros; the other checks of the *)
(* record loop do not read or write ultimo_seq.  The loop itself follows   *)
(* the functions of validators/cnab400/utils.py, further down.             *)
(***************************************************************************)
Bancos400 ==
    {"bb", "itau", "sicredi", "caixa", "bradesco", "santander", "banestes", "brb"}

\* The validators that skip a record shorter than 400 before reading it.
ExigeTam400 == Bancos400 \ {"bb", "brb"}

\* `if ultimo_seq and seq != ultimo_seq + 1`
fora_de_ordem(ultimo_seq, seq) == ultimo_seq # 0 /\ seq # ultimo_seq + 1

\* One iteration of the loop: st is [ultimo_seq, erros, exc].
passo_seq400(banco, st, l, numero_linha) ==
    LET seq_raw == strip(Slice(l, "s400"))
    IN  IF st.exc # "" \/ EmBranco(l) THEN st
        ELSE IF banco \in ExigeTam400 /\ Len(l) < 400
        THEN [st EXCEPT !.erros = Append(@, Erro("menos_de_400", numero_linha, <<>>, 0, 0))]
        ELSE IF Len(seq_raw) > 0 /\ isdigit(seq_raw)
        THEN IF int_raises(seq_raw) THEN [st EXCEPT !.exc = "ValueError"]
             ELSE [st EXCEPT
                     !.erros = IF fora_de_ordem(st.ultimo_seq, int(seq_raw))
                               THEN Append(@, Erro("seq_fora", numero_linha, <<>>,
                                                   int(seq_raw), st.ultimo_seq + 1))
                               ELSE @,
                     !.ultimo_seq = int(seq_raw)]
        ELSE [st EXCEPT !.erros = Append(@, Erro("seq_invalida", numero_linha, <<>>, 0, 0))]

(***************************************************************************)
(* validators/base.py: the functions of one string.  limpar_numero keeps   *)
(* the characters for which str.isdigit() is True.                         *)
(***************************************************************************)
limpar_numero(s) == so_digitos(s)

\* The product of a digit by the multiplier, left with its two digits.
produto10_sem_soma(n, multiplicador) == n * multiplicador

\* The product of a digit by the multiplier, its two digits added.
produto10(n, multiplicador) ==
    LET prod == n * multiplicador
    IN  IF prod >= 10 THEN (prod \div 10) + (prod % 10) ELSE prod

\* The sum of modulo10 over numero, the rightmost digit multiplied by 2.
RECURSIVE soma10(_, _)
soma10(numero, multiplicador) ==
    IF Len(numero) = 0 THEN 0
    ELSE produto10(DecVal(numero[Len(numero)]), multiplicador)
         + soma10(SubSeq(numero, 1, Len(numero) - 1),
                  IF multiplicador = 2 THEN 1 ELSE 2)

modulo10(numero) ==
    LET resto == soma10(numero, 2) % 10
    IN  (10 - resto) % 10

\* The sum of modulo11_boleto over numero, the weights 2..9 from the right.
RECURSIVE soma11(_, _)
soma11(numero, peso) ==
    IF Len(numero) = 0 THEN 0
    ELSE DecVal(numero[Len(numero)]) * peso
         + soma11(SubSeq(numero, 1, Len(numero) - 1),
                  IF peso + 1 > 9 THEN 2 ELSE peso + 1)

\* The check digit 11 - resto, whatever it is.
dv_sem_ajuste(resto) == 11 - resto

\* The remainders 0, 1 and 10 give the check digit 1.
dv_de_resto11(resto) ==
    LET dv == 11 - resto
    IN  IF dv \in {0, 1, 10, 11} THEN 1 ELSE dv

modulo11_boleto(numero) == dv_de_resto11(soma11(numero, 2) % 11)

\* datetime + timedelta(days = dias), dates being <<ano, mes, dia>>.
RECURSIVE data_mais_dias(_, _)
data_mais_dias(d, dias) ==
    LET dm == dias_no_mes(d[1], d[2])
    IN  IF d[3] + dias <= dm THEN <<d[1], d[2], d[3] + dias>>
        ELSE data_mais_dias(IF d[2] = 12 THEN <<d[1] + 1, 1, 1>>
                            ELSE <<d[1], d[2] + 1, 1>>,
                            dias - (dm - d[3] + 1))

\* dt.strftime("%d/%m/%Y")
strftime_dmY(d) == Zeros(d[3], 2) \o <<"/">> \o Zeros(d[2], 2) \o <<"/">> \o Zeros(d[1], 4)

\* "Sem data de vencimento (fator 0000)"
SemVencimento ==
    <<"S", "e", "m", " ", "d", "a", "t", "a", " ", "d", "e", " ",
      "v", "e", "n", "c", "i", "m", "e", "n", "t", "o", " ",
      "(", "f", "a", "t", "o", "r", " ", "0", "0", "0", "0", ")">>

\* An error of the digitable line: which check, the digit expected and the
\* digit found (for the length error, 47 and the number of digits received).
ErroLinha(cod, esp, enc) == [cod |-> cod, esperado |-> esp, encontrado |-> enc]

\* The dictionary infos: its keys, and the value of each key it holds.
infos_vazio ==
    [chaves |-> {}, codigo_barras |-> <<>>, banco |-> <<>>, moeda |-> <<>>,
     vencimento |-> <<>>, valor_centavos |-> 0, valor_reais |-> <<0, 0>>]

\* The test of the number of digits that lets every string of 47 digits or
\* more through.
tamanho_curto(numeros) == Len(numeros) < 47

\* The test of the number of digits.
tamanho_invalido(numeros) == Len(numeros) # 47

\* The error of one block: modulo10 of the field against its check digit.
erro_campo(cod, campo, dv) ==
    IF modulo10(campo) # dv THEN <<ErroLinha(cod, modulo10(campo), dv)>> ELSE <<>>

\* The result is the pair (erros, infos); dvs lists the check digits the call
\* has computed, in order.
validar_linha_digitavel_boleto(linha) ==
    LET numeros == limpar_numero(linha)
        d == numeros
        campo1 == SubSeq(d, 1, 9)
        campo2 == SubSeq(d, 11, 20)
        campo3 == SubSeq(d, 22, 31)
        fator == SubSeq(d, 34, 37)
        valor_str == SubSeq(d, 38, 47)
        banco == SubSeq(d, 1, 3)
        moeda == SubSeq(d, 4, 4)
        campo_livre == SubSeq(d, 5, 9) \o campo2 \o campo3
        codigo_barras_sem_dv == banco \o moeda \o fator \o valor_str \o campo_livre
        dv1 == int(SubSeq(d, 10, 10))
        dv2 == int(SubSeq(d, 21, 21))
        dv3 == int(SubSeq(d, 32, 32))
        dv_geral == int(SubSeq(d, 33, 33))
        dv_geral_calculado == modulo11_boleto(codigo_barras_sem_dv)
        erros == erro_campo("campo1", campo1, dv1)
                 \o erro_campo("campo2", campo2, dv2)
                 \o erro_campo("campo3", campo3, dv3)
                 \o (IF dv_geral_calculado # dv_geral
                     THEN <<ErroLinha("dv_geral", dv_geral_calculado, dv_geral)>>
                     ELSE <<>>)
        valor_centavos == int(valor_str)
        infos ==
            [chaves |-> {"codigo_barras", "banco", "moeda", "vencimento",
                         "valor_centavos", "valor_reais"},
             codigo_barras |-> banco \o moeda \o SubSeq(d, 33, 33) \o fator
                               \o valor_str \o campo_livre,
             banco |-> banco,
             moeda |-> moeda,
             vencimento |-> IF fator = <<"0", "0", "0", "0">> THEN SemVencimento
                            ELSE strftime_dmY(data_mais_dias(<<1997, 10, 7>>, int(fator))),
             valor_centavos |-> valor_centavos,
             valor_reais |-> <<valor_centavos \div 100, valor_centavos % 100>>]
    IN  IF tamanho_invalido(numeros)
        THEN Retorno([erros |-> <<ErroLinha("tamanho", 47, Len(numeros))>>,
                      infos |-> infos_vazio, dvs |-> <<>>])
        ELSE IF int_raises(numeros)
        THEN Levanta("ValueError")
        ELSE Retorno([erros |-> erros, infos |-> infos,
                      dvs |-> <<"campo1", "campo2", "campo3", "dv_geral">>])

pesos1 == <<5, 4, 3, 2, 9, 8, 7, 6, 5, 4, 3, 2>>

pesos2 == <<6>> \o pesos1

\* sum(int(cnpj[i]) * pesos[i] for i in range(n))
RECURSIVE soma_pesos(_, _, _)
soma_pesos(cnpj, pesos, n) ==
    IF n = 0 THEN 0
    ELSE soma_pesos(cnpj, pesos, n - 1) + DecVal(cnpj[n]) * pesos[n]

\* 0 if resto < 2 else 11 - resto
dv_cnpj(soma) ==
    LET resto == soma % 11
    IN  IF resto < 2 THEN 0 ELSE 11 - resto

\* The check of the first check digit alone.
validar_cnpj_so_dv1(s) ==
    LET cnpj == limpar_numero(s)
    IN  IF Len(cnpj) # 14 THEN Retorno(FALSE)
        ELSE IF cnpj = Fill(cnpj[1], 14) THEN Retorno(FALSE)
        ELSE IF int_raises(SubSeq(cnpj, 1, 13)) THEN Levanta("ValueError")
        ELSE Retorno(dv_cnpj(soma_pesos(cnpj, pesos1, 12)) = int(SubSeq(cnpj, 13, 13)))

validar_cnpj(s) ==
    LET cnpj == limpar_numero(s)
    IN  IF Len(cnpj) # 14 THEN Retorno(FALSE)
        ELSE IF cnpj = Fill(cnpj[1], 14) THEN Retorno(FALSE)
        ELSE IF int_raises(SubSeq(cnpj, 1, 12)) THEN Levanta("ValueError")
        ELSE IF int_raises(SubSeq(cnpj, 13, 13)) THEN Levanta("ValueError")
        ELSE IF dv_cnpj(soma_pesos(cnpj, pesos1, 12)) # int(SubSeq(cnpj, 13, 13))
             THEN Retorno(FALSE)
        ELSE IF int_raises(SubSeq(cnpj, 14, 14)) THEN Levanta("ValueError")
        ELSE IF dv_cnpj(soma_pesos(cnpj, pesos2, 13)) # int(SubSeq(cnpj, 14, 14))
             THEN Retorno(FALSE)
        ELSE Retorno(TRUE)

(***************************************************************************)
(* validators/cnab400/utils.py: the date of a DDMMYY field.  None is the   *)
(* empty tuple and a datetime is <<ano, mes, dia>>.                        *)
(***************************************************************************)
None == <<>>

\* 1900 + ano if ano >= 70 else 2000 + ano
ano_full(ano) == IF ano >= 70 THEN 1900 + ano ELSE 2000 + ano

parse_data_cnab400(v) ==
    LET valor == strip(v)
        dia == int(SubSeq(valor, 1, 2))
        mes == int(SubSeq(valor, 3, 4))
        ano == int(SubSeq(valor, 5, 6))
    IN  IF Len(valor) = 0 \/ valor = Zeros(0, 6) \/ Len(valor) # 6 \/ ~isdigit(valor)
        THEN Retorno(None)
        ELSE IF int_raises(valor) THEN Levanta("ValueError")
        ELSE IF data_valida(ano_full(ano), mes, dia)
             THEN Retorno(<<ano_full(ano), mes, dia>>)
             ELSE Retorno(None)

(***************************************************************************)
(* validators/cnab400: the record types.  After the sequence check, each   *)
(* validator branches on the first character of the record: the header,    *)
(* the detail, the optional or message records, the trailer.  A detail     *)
(* becomes ultimo_detalhe (here, the number of its line; 0 is None), and   *)
(* the branch of an optional record either reports that no detail came     *)
(* before it or writes into ultimo_detalhe.  anexos lists those writes.    *)
(* The messages of the checks of the fields of the header, the detail and  *)
(* the trailer are left out; the exceptions those checks raise are kept.   *)
(***************************************************************************)
\* _campo_cnab400(linha, pos_inicio, pos_fim): positions from 1, both included.
campo_cnab400(linha, pos_inicio, pos_fim) ==
    IF pos_inicio < 1 \/ pos_fim < pos_inicio \/ Len(linha) < pos_inicio
    THEN <<>>
    ELSE SubSeq(linha, pos_inicio, Min(pos_fim, Len(linha)))

\* _parse_valor_cnab400(raw): none says that the value returned is None.
parse_valor_cnab400(raw) ==
    LET r == strip(raw)
    IN  IF Len(r) = 0 THEN Retorno([none |-> FALSE, n |-> 0])
        ELSE IF ~isdigit(r) THEN Retorno([none |-> TRUE, n |-> 0])
        ELSE IF int_raises(r) THEN Levanta("ValueError")
        ELSE Retorno([none |-> FALSE, n |-> int(r)])

\* The keys of CNAB400_BB_AGENTES_NEGATIVACAO.
CNAB400_BB_AGENTES_NEGATIVACAO == { <<"1", "0">>, <<"1", "1">> }

\* tipo = registro[0:1]
tipo_registro(l) == SubSeq(l, 1, Min(1, Len(l)))

\* The type of the detail record: `elif tipo == "7"` in bb.py, "1" elsewhere.
TipoDetalhe(banco) == IF banco = "bb" THEN <<"7">> ELSE <<"1">>

\* The types whose branch opens with `if not ultimo_detalhe`.  The Banestes
\* validator keeps no ultimo_detalhe, and its type 5 only adds to a counter;
\* the Itau validator skips type 6; the BRB validator reads no record type.
TiposComDetalheAnterior(banco) ==
    CASE banco = "bb" -> {"5"}
      [] banco = "itau" -> {"2", "5", "7", "8"}
      [] banco = "bradesco" -> {"2", "5", "7"}
      [] banco = "santander" -> {"2", "5", "7"}
      [] banco = "caixa" -> {"2", "7", "8"}
      [] banco = "sicredi" -> {"2", "5", "6", "7", "8"}
      [] OTHER -> {}

\* emails = [email.strip() for email in emails_raw.split(";") if email.strip()]
\* is not empty: some character is neither whitespace nor a semicolon.
tem_email(emails_raw) ==
    \E i \in 1..Len(emails_raw) : emails_raw[i] \notin Espaco \cup {";"}

\* _aplicar_registro_opcional_cnab400_bb: whether it writes into the detail.
aplicar_registro_opcional_cnab400_bb(linha) ==
    LET tipo_servico == strip(campo_cnab400(linha, 2, 3))
        data2 == parse_data_cnab400(campo_cnab400(linha, 4, 9))
        valor2 == parse_valor_cnab400(campo_cnab400(linha, 10, 26))
        data3 == parse_data_cnab400(campo_cnab400(linha, 27, 32))
        valor3 == parse_valor_cnab400(campo_cnab400(linha, 33, 49))
    IN  CASE tipo_servico = <<"0", "7">> ->
                IF data2.exc # "" \/ valor2.exc # "" \/ data3.exc # "" \/ valor3.exc # ""
                THEN Levanta("ValueError")
                ELSE Retorno(\/ data2.val # None \/ ~valor2.val.none
                             \/ data3.val # None \/ ~valor3.val.none)
          [] tipo_servico = <<"0", "1">> ->
                Retorno(tem_email(campo_cnab400(linha, 4, 139)))
          [] tipo_servico = <<"0", "3">> ->
                Retorno(Len(strip(campo_cnab400(linha, 4, 18))) > 0)
          [] tipo_servico = <<"0", "8">> ->
                Retorno(strip(campo_cnab400(linha, 4, 5)) \in CNAB400_BB_AGENTES_NEGATIVACAO)
          [] OTHER -> Retorno(FALSE)

\* The else-branch of an optional record: whether it writes into
\* ultimo_detalhe, or the exception it raises.  The text of a message is
\* _campo_cnab400(registro, 2, 394).rstrip(), appended `if texto`, that is,
\* when the field is not all whitespace.
registro_opcional(banco, tipo, registro) ==
    CASE banco = "bb" -> aplicar_registro_opcional_cnab400_bb(registro)
      [] banco = "itau" /\ tipo = <<"2">> ->
            IF \/ parse_data_cnab400(campo_cnab400(registro, 3, 10)).exc # ""
               \/ parse_valor_cnab400(campo_cnab400(registro, 11, 23)).exc # ""
            THEN Levanta("ValueError")
            ELSE Retorno(TRUE)
      [] banco = "itau" /\ tipo = <<"5">> -> Retorno(TRUE)
      [] OTHER -> Retorno(~AllSpace(campo_cnab400(registro, 2, 394)))

\* Whether _parse_data_cnab400 or _parse_valor_cnab400 raises on a field.
data_levanta(l, campo) == parse_data_cnab400(campo_cnab400(l, campo[1], campo[2])).exc # ""

valor_levanta(l, campo) == parse_valor_cnab400(campo_cnab400(l, campo[1], campo[2])).exc # ""

\* int(valor[0:4]) of _parse_data_aaaammdd in sicredi.py, after its guard
\* `not valor or len(valor) != 8 or not valor.isdigit()`.
data_aaaammdd_levanta(v) ==
    LET valor == strip(v) IN Len(valor) = 8 /\ isdigit(valor) /\ int_raises(valor)

\* The header branch parses the date of the file: AAAAMMDD at 95-102 in
\* sicredi.py, DDMMAA at 95-100 in the others.
header_levanta(banco, l) ==
    IF banco = "sicredi" THEN data_aaaammdd_levanta(campo_cnab400(l, 95, 102))
    ELSE data_levanta(l, <<95, 100>>)

\* The fields the detail branch hands to _parse_data_cnab400.
DatasDetalhe(banco) ==
    CASE banco = "itau" -> { <<121, 126>>, <<151, 156>>, <<174, 179>>, <<386, 391>> }
      [] banco = "sicredi" -> { <<121, 126>>, <<151, 156>>, <<174, 179>> }
      [] banco = "bradesco" -> { <<147, 152>> }
      [] banco = "bb" -> { <<121, 126>>, <<151, 156>> }
      [] OTHER -> { <<121, 126>> }

\* The field of the value of the title.
ValorDoTitulo(banco) == IF banco = "bradesco" THEN <<153, 165>> ELSE <<127, 139>>

\* The fields the detail branch hands to _parse_valor_cnab400.
ValoresDetalhe(banco) ==
    CASE banco = "itau" -> { <<127, 139>>, <<161, 173>>, <<180, 192>>, <<193, 205>>,
                             <<206, 218>> }
      [] banco = "sicredi" -> { <<127, 139>>, <<161, 173>>, <<180, 192>>, <<206, 218>> }
      [] banco = "bb" -> { <<127, 139>>, <<161, 173>>, <<193, 205>>, <<206, 218>> }
      [] OTHER -> { ValorDoTitulo(banco) }

\* _validar_registro_detalhe_cnab400_bb: the fine of the commands 35 and 36
\* or the discount of the others, and int(dias_protesto).
detalhe_bb_levanta(l) ==
    LET comando == strip(campo_cnab400(l, 109, 110))
        dias_protesto == strip(campo_cnab400(l, 392, 393))
    IN  \/ IF comando \in { <<"3", "5">>, <<"3", "6">> }
           THEN data_levanta(l, <<175, 180>>) \/ valor_levanta(l, <<181, 192>>)
           ELSE data_levanta(l, <<174, 179>>) \/ valor_levanta(l, <<180, 192>>)
        \/ isdigit(dias_protesto) /\ int_raises(dias_protesto)

\* Whether the detail branch raises: every parse is made before the title
\* is returned or the loop moves on.
detalhe_levanta(banco, l) ==
    \/ \E campo \in DatasDetalhe(banco) : data_levanta(l, campo)
    \/ \E campo \in ValoresDetalhe(banco) : valor_levanta(l, campo)
    \/ banco = "bb" /\ detalhe_bb_levanta(l)

\* `if tipo == "0"`: a second header is reported and skipped.
passo_header400(banco, st, l) ==
    IF st.header
    THEN [st EXCEPT !.erros_header = Append(@, "mais_de_um_header")]
    ELSE IF header_levanta(banco, l) THEN [st EXCEPT !.exc = "ValueError"]
    ELSE [st EXCEPT !.header = TRUE]

\* The detail: titulos.append, resumo["qtd_titulos"] += 1 and
\* resumo["valor_total_centavos"] += valor_centavos, where a value that is
\* None has become 0.
passo_detalhe400(banco, st, l, numero_linha) ==
    LET valor == parse_valor_cnab400(campo_cnab400(l, ValorDoTitulo(banco)[1],
                                                   ValorDoTitulo(banco)[2]))
    IN  IF detalhe_levanta(banco, l) THEN [st EXCEPT !.exc = "ValueError"]
        ELSE [st EXCEPT
                !.titulos = Append(@, [linha |-> numero_linha,
                                       valor_centavos |-> valor.val.n]),
                !.qtd_titulos = @ + 1,
                !.valor_total_centavos = @ + valor.val.n,
                !.ultimo_detalhe = IF banco = "banestes" THEN @ ELSE numero_linha]

\* banestes.py, `elif tipo == "9"`: the count and the total of the trailer
\* against the resumo so far.
avisos_trailer_banestes(st, l) ==
    LET qtd_titulos_trailer == strip(campo_cnab400(l, 18, 25))
        valor_total_trailer == strip(campo_cnab400(l, 26, 39))
    IN  (IF /\ isdigit(qtd_titulos_trailer)
            /\ st.qtd_titulos # 0
            /\ st.qtd_titulos # int(qtd_titulos_trailer)
         THEN <<"trailer_qtd_titulos">> ELSE <<>>)
        \o (IF /\ isdigit(valor_total_trailer)
               /\ st.valor_total_centavos # 0
               /\ st.valor_total_centavos # int(valor_total_trailer)
            THEN <<"trailer_valor_total">> ELSE <<>>)

trailer_banestes_levanta(l) ==
    LET qtd_titulos_trailer == strip(campo_cnab400(l, 18, 25))
        valor_total_trailer == strip(campo_cnab400(l, 26, 39))
    IN  \/ isdigit(qtd_titulos_trailer) /\ int_raises(qtd_titulos_trailer)
        \/ isdigit(valor_total_trailer) /\ int_raises(valor_total_trailer)

\* The validators whose trailer branch opens with `if trailer_processado`
\* (`if trailer_encontrado` in bb.py, which then skips the record).
ContaTrailers == {"bb", "bradesco", "caixa", "santander"}

\* `elif tipo == "9"`
passo_trailer400(banco, st, l) ==
    IF banco \in ContaTrailers /\ st.trailer
    THEN [st EXCEPT !.erros_trailer = Append(@, "dois_trailers")]
    ELSE IF banco = "banestes"
    THEN IF trailer_banestes_levanta(l) THEN [st EXCEPT !.exc = "ValueError"]
         ELSE [st EXCEPT !.trailer = TRUE,
                         !.avisos = @ \o avisos_trailer_banestes(st, l)]
    ELSE [st EXCEPT !.trailer = TRUE]

\* The branch of an optional record, which reads ultimo_detalhe.
passo_opcional400(banco, st, l, numero_linha) ==
    LET r == registro_opcional(banco, tipo_registro(l), l)
    IN  IF st.ultimo_detalhe = 0
        THEN [st EXCEPT !.erros = Append(@, Erro("opcional_sem_detalhe",
                                                 numero_linha, <<>>, 0, 0))]
        ELSE IF r.exc # "" THEN [st EXCEPT !.exc = r.exc]
        ELSE IF r.val
        THEN [st EXCEPT !.anexos = Append(@, [opcional |-> numero_linha,
                                              detalhe |-> st.ultimo_detalhe])]
        ELSE st

\* The branch on the record type, for a record the loop has not skipped.
passo_tipo400(banco, st, l, numero_linha) ==
    LET tipo == tipo_registro(l)
    IN  IF tipo = <<"0">> THEN passo_header400(banco, st, l)
        ELSE IF tipo = TipoDetalhe(banco) THEN passo_detalhe400(banco, st, l, numero_linha)
        ELSE IF Len(tipo) = 1 /\ tipo[1] \in TiposComDetalheAnterior(banco)
        THEN passo_opcional400(banco, st, l, numero_linha)
        ELSE IF tipo = <<"9">> THEN passo_trailer400(banco, st, l)
        ELSE st

\* One iteration of the loop: the sequence check, then the record type.
passo_400(banco, st, l, numero_linha) ==
    LET s == passo_seq400(banco, st, l, numero_linha)
    IN  IF s.exc # "" \/ EmBranco(l) \/ (banco \in ExigeTam400 /\ Len(l) < 400)
        THEN s
        ELSE passo_tipo400(banco, s, l, numero_linha)

RECURSIVE laco_400(_, _, _)
laco_400(banco, ls, n) ==
    IF n = 0
    THEN [ultimo_seq |-> 0, ultimo_detalhe |-> 0, erros |-> <<>>,
          anexos |-> <<>>, exc |-> "", header |-> FALSE, trailer |-> FALSE,
          erros_header |-> <<>>, erros_trailer |-> <<>>, avisos |-> <<>>,
          titulos |-> <<>>, qtd_titulos |-> 0, valor_total_centavos |-> 0]
    ELSE passo_400(banco, laco_400(banco, ls, n - 1), ls[n], n)

\* The record a validator returns when nothing was read.
ResultadoVazio400 ==
    [erros_registros |-> <<>>, anexos |-> <<>>, erros_header |-> <<>>,
     erros_trailer |-> <<>>, avisos |-> <<>>, titulos |-> <<>>,
     resumo |-> [qtd_titulos |-> 0, valor_total_centavos |-> 0]]

\* brb.py, _parse_data_ddmmaaaa: the three int() calls come before the try,
\* after the guard `len(valor) != 8 or not valor.isdigit()`.
data_ddmmaaaa_levanta(v) ==
    LET valor == strip(v) IN Len(valor) = 8 /\ isdigit(valor) /\ int_raises(valor)

\* brb.py, the header: the date at 20-27, the int() calls on the time at
\* 28-33 and on the number of records at 34-39, each behind isdigit().
header_brb_levanta(header) ==
    LET hora_fmt == campo_cnab400(header, 28, 33)
        qtd_reg_header == campo_cnab400(header, 34, 39)
    IN  \/ data_ddmmaaaa_levanta(campo_cnab400(header, 20, 27))
        \/ Len(hora_fmt) = 6 /\ isdigit(hora_fmt) /\ int_raises(hora_fmt)
        \/ isdigit(qtd_reg_header) /\ int_raises(qtd_reg_header)

\* brb.py, a detail: the dates and the values it parses.
detalhe_brb_levanta(registro) ==
    LET data_desc_raw == campo_cnab400(registro, 254, 261)
    IN  \/ data_ddmmaaaa_levanta(campo_cnab400(registro, 137, 144))
        \/ data_ddmmaaaa_levanta(campo_cnab400(registro, 188, 195))
        \/ valor_levanta(registro, <<196, 209>>)
        \/ valor_levanta(registro, <<224, 237>>)
        \/ valor_levanta(registro, <<238, 251>>)
        \/ ~SoZeros(data_desc_raw) /\ data_ddmmaaaa_levanta(data_desc_raw)
        \/ valor_levanta(registro, <<262, 275>>)

\* brb.py, one turn of the loop over linhas[1:]: a blank line and a record
\* that is not 400 long are passed over; every other record is a title,
\* with `valor_titulo or 0` in the title and in the total.
passo_brb(st, linha, numero_linha) ==
    IF st.exc # "" THEN st
    ELSE IF AllSpace(linha) \/ Len(linha) # 400 THEN st
    ELSE IF detalhe_brb_levanta(linha) THEN [st EXCEPT !.exc = "ValueError"]
    ELSE LET valor_titulo == parse_valor_cnab400(campo_cnab400(linha, 196, 209)).val.n
         IN  [st EXCEPT
                !.titulos = Append(@, [linha |-> numero_linha,
                                       valor_centavos |-> valor_titulo]),
                !.qtd_titulos = @ + 1,
                !.valor_total_centavos = @ + valor_titulo]

RECURSIVE laco_brb(_, _)
laco_brb(ls, n) ==
    IF n = 1
    THEN [exc |-> IF header_brb_levanta(ls[1]) THEN "ValueError" ELSE "",
          titulos |-> <<>>, qtd_titulos |-> 0, valor_total_centavos |-> 0]
    ELSE passo_brb(laco_brb(ls, n - 1), ls[n], n)

\* validar_cnab400_brb(linhas): the titles and the resumo; the messages of
\* the checks of the fields are left out, the exceptions they raise are kept.
validar_cnab400_brb(ls) ==
    IF Len(ls) = 0 THEN Retorno(ResultadoVazio400)
    ELSE LET st == laco_brb(ls, Len(ls))
         IN  IF st.exc # "" THEN Levanta(st.exc)
             ELSE Retorno([ResultadoVazio400 EXCEPT
                    !.titulos = st.titulos,
                    !.resumo = [qtd_titulos |-> st.qtd_titulos,
                                valor_total_centavos |-> st.valor_total_centavos]])

\* validar_cnab400_<banco>(linhas): the sequence errors and the errors of
\* record order among erros_registros, the writes of the optional records,
\* the errors of a missing or repeated header or trailer, the warnings of
\* the Banestes trailer, the titles and the resumo.  The BRB layout has
\* neither a sequence field nor record types, and its validator makes no
\* such check.
validar_cnab400(banco, ls) ==
    IF banco = "brb" THEN validar_cnab400_brb(ls)
    ELSE LET st == laco_400(banco, ls, Len(ls))
         IN  IF st.exc # "" THEN Levanta(st.exc)
             ELSE Retorno(
                 [erros_registros |-> st.erros, anexos |-> st.anexos,
                  erros_header |-> st.erros_header
                      \o (IF st.header THEN <<>> ELSE <<"sem_header">>),
                  erros_trailer |-> st.erros_trailer
                      \o (IF st.trailer THEN <<>> ELSE <<"sem_trailer">>),
                  avisos |-> st.avisos, titulos |-> st.titulos,
                  resumo |-> [qtd_titulos |-> st.qtd_titulos,
                              valor_total_centavos |-> st.valor_total_centavos]])

(***************************************************************************)
(* validators/cnab240/common.py: listar_titulos_cnab240, the titles of a   *)
(* remittance, one for each Segment P line, with the data of the Segment Q *)
(* that follows it and of the Segment R within the next two lines.         *)
(***************************************************************************)
\* The keys of LAYOUTS_CNAB240.
LAYOUTS_CNAB240 ==
    { <<"0", "0", "1">>, <<"0", "7", "0">>, <<"1", "0", "4">>, <<"2", "3", "7">>,
      <<"3", "4", "1">>, <<"0", "3", "3">>, <<"7", "5", "6">>, <<"7", "4", "8">> }

\* The int() of a date or value field raises: the field has passed
\* isdigit() and is not a decimal literal.
levanta_data(raw) == Len(raw) = 8 /\ isdigit(raw) /\ int_raises(raw)

levanta_valor(raw) == isdigit(raw) /\ int_raises(raw)

\* The text dd/mm/aaaa of a field DDMMAAAA, None when it is not a date; the
\* due date of the Segment P is also kept within the years 1900 to 2099.
data_str(raw, limites) ==
    LET dia == int(SubSeq(raw, 1, 2))
        mes == int(SubSeq(raw, 3, 4))
        ano == int(SubSeq(raw, 5, 8))
    IN  IF /\ Len(raw) = 8
           /\ isdigit(raw)
           /\ limites => (dia \in 1..31 /\ mes \in 1..12 /\ ano \in 1900..2099)
           /\ data_valida(ano, mes, dia)
        THEN strftime_dmY(<<ano, mes, dia>>)
        ELSE None

\* valor / 100.0, as the pair of the reais and the centavos.
reais(centavos) == <<centavos \div 100, centavos % 100>>

\* The Segment P lines that give a title.
segmento_p_titulo(l) ==
    /\ ~EmBranco(l)
    /\ Len(l) >= 100
    /\ Slice(l, "tipo") = <<"3">>
    /\ upper(Slice(l, "seg")) = <<"P">>

\* The line at the 0-based index j is the segment seg of the batch lote,
\* with at least minimo characters.
segmento_seguinte(ls, j, seg, lote, minimo) ==
    /\ j < Len(ls)
    /\ Len(ls[j + 1]) >= minimo
    /\ Slice(ls[j + 1], "tipo") = <<"3">>
    /\ upper(Slice(ls[j + 1], "seg")) = <<seg>>
    /\ Slice(ls[j + 1], "lote") = lote

\* The 0-based index of the Segment R of the title of index idx, -1 for none.
idx_r(ls, idx) ==
    LET lote == Slice(ls[idx + 1], "lote")
    IN  IF segmento_seguinte(ls, idx + 1, "R", lote, 90) THEN idx + 1
        ELSE IF segmento_seguinte(ls, idx + 2, "R", lote, 90) THEN idx + 2
        ELSE -1

\* One of the three groups (code, date, value) of a Segment R, from the
\* 0-based position a.
grupo_r(prox_r, a) ==
    [codigo |-> strip(Trecho(prox_r, a, a + 1)),
     data_str |-> data_str(strip(Trecho(prox_r, a + 1, a + 9)), FALSE),
     valor_reais |-> LET v == strip(Trecho(prox_r, a + 9, a + 24))
                     IN  IF isdigit(v) THEN reais(int(v)) ELSE reais(0)]

levanta_grupo_r(prox_r, a) ==
    \/ levanta_data(strip(Trecho(prox_r, a + 1, a + 9)))
    \/ levanta_valor(strip(Trecho(prox_r, a + 9, a + 24)))

grupo_r_vazio == [codigo |-> <<>>, data_str |-> None, valor_reais |-> reais(0)]

\* The title of the Segment P at the 0-based index idx raises.
levanta_titulo(ls, idx) ==
    LET linha == ls[idx + 1]
        r == idx_r(ls, idx)
    IN  \/ levanta_data(strip(Slice(linha, "data_vencimento")))
        \/ levanta_valor(strip(Slice(linha, "valor_titulo")))
        \/ r >= 0 /\ \E a \in {17, 41, 65} : levanta_grupo_r(ls[r + 1], a)

\* The title of the Segment P at the 0-based index idx.
titulo(ls, idx) ==
    LET linha == ls[idx + 1]
        lote == Slice(linha, "lote")
        valor_raw == strip(Slice(linha, "valor_titulo"))
        valor_centavos == IF isdigit(valor_raw) THEN int(valor_raw) ELSE 0
        r == idx_r(ls, idx)
        q == segmento_seguinte(ls, idx + 1, "Q", lote, 153)
        campo_q(f) == IF q THEN strip(Slice(ls[idx + 2], f)) ELSE <<>>
    IN  [lote |-> lote,
         sequencia |-> Slice(linha, "seq"),
         nosso_numero |-> strip(Slice(linha, "nosso_numero")),
         data_vencimento_str |-> data_str(strip(Slice(linha, "data_vencimento")), TRUE),
         valor_centavos |-> valor_centavos,
         valor_reais |-> reais(valor_centavos),
         sacado_documento |-> limpar_numero(campo_q("documento_sacado")),
         sacado_nome |-> campo_q("nome_sacado"),
         sacado_endereco |-> campo_q("endereco_sacado"),
         sacado_bairro |-> campo_q("bairro_sacado"),
         sacado_cep |-> campo_q("cep_sacado"),
         sacado_cidade |-> campo_q("cidade_sacado"),
         sacado_uf |-> campo_q("uf_sacado"),
         r_desc2 |-> IF r >= 0 THEN grupo_r(ls[r + 1], 17) ELSE grupo_r_vazio,
         r_desc3 |-> IF r >= 0 THEN grupo_r(ls[r + 1], 41) ELSE grupo_r_vazio,
         r_multa |-> IF r >= 0 THEN grupo_r(ls[r + 1], 65) ELSE grupo_r_vazio]

listar_titulos_cnab240(codigo_banco, ls) ==
    LET ps == Ordenados({ i \in 1..Len(ls) : segmento_p_titulo(ls[i]) })
    IN  IF codigo_banco \notin LAYOUTS_CNAB240 THEN Retorno(<<>>)
        ELSE IF \E k \in 1..Len(ps) : levanta_titulo(ls, ps[k] - 1)
        THEN Levanta("ValueError")
        ELSE Retorno([k \in 1..Len(ps) |-> titulo(ls, ps[k] - 1)])

(***************************************************************************)
(* validators/cnab240/common.py: gerar_resumo_remessa_cnab240, the summary *)
(* of the Segments P of a file: the number of titles, the total value and  *)
(* the earliest and the latest due date.                                   *)
(***************************************************************************)
\* The length test left out: every Segment P line counts.
segmento_p_sem_limite(l) ==
    /\ ~EmBranco(l)
    /\ Slice(l, "tipo") = <<"3">>
    /\ upper(Slice(l, "seg")) = <<"P">>

\* The Segment P lines the summary counts:
\* len(linha) >= max(end_venc, end_valor, 14), type 3, segment P.
segmento_p_resumo(l) ==
    /\ ~EmBranco(l)
    /\ Len(l) >= 100
    /\ Slice(l, "tipo") = <<"3">>
    /\ upper(Slice(l, "seg")) = <<"P">>

\* dt: the due date as <<ano, mes, dia>>, None when the field is not a date
\* of the years 1900 to 2099.
vencimento_resumo(l) ==
    LET data_raw == strip(Slice(l, "data_vencimento"))
        dia == int(SubSeq(data_raw, 1, 2))
        mes == int(SubSeq(data_raw, 3, 4))
        ano == int(SubSeq(data_raw, 5, 8))
    IN  IF /\ Len(data_raw) = 8 /\ isdigit(data_raw)
           /\ dia \in 1..31 /\ mes \in 1..12 /\ ano \in 1900..2099
           /\ data_valida(ano, mes, dia)
        THEN <<ano, mes, dia>> ELSE None

\* valor_cent: int(valor_raw) if valor_raw.isdigit() else 0
valor_resumo(l) ==
    LET valor_raw == strip(Slice(l, "valor_titulo"))
    IN  IF isdigit(valor_raw) THEN int(valor_raw) ELSE 0

\* The sum of a sequence of numbers.
RECURSIVE soma(_)
soma(s) == IF Len(s) = 0 THEN 0 ELSE s[1] + soma(Tail(s))

\* The resumo before any line is read.
ResumoVazio ==
    [qtd_titulos |-> 0, valor_total_centavos |-> 0,
     vencimento_min |-> None, vencimento_max |-> None]

gerar_resumo_remessa_cnab240(codigo_banco, ls) ==
    LET ps == Ordenados({ i \in 1..Len(ls) : segmento_p_resumo(ls[i]) })
        datas == { vencimento_resumo(ls[ps[k]]) : k \in 1..Len(ps) } \ {None}
    IN  IF codigo_banco \notin LAYOUTS_CNAB240 THEN Retorno(ResumoVazio)
        ELSE IF \E k \in 1..Len(ps) :
                   \/ levanta_data(strip(Slice(ls[ps[k]], "data_vencimento")))
                   \/ levanta_valor(strip(Slice(ls[ps[k]], "valor_titulo")))
        THEN Levanta("ValueError")
        ELSE Retorno(
            [qtd_titulos |-> Len(ps),
             valor_total_centavos |-> soma([k \in 1..Len(ps) |-> valor_resumo(ls[ps[k]])]),
             vencimento_min |->
                 IF datas = {} THEN None
                 ELSE CHOOSE d \in datas : \A e \in datas : ~data_antes(e, d),
             vencimento_max |->
                 IF datas = {} THEN None
                 ELSE CHOOSE d \in datas : \A e \in datas : ~data_antes(d, e)])

(***************************************************************************)
(* validators/cnab240/common.py: validar_segmentos_por_layout, the generic *)
(* validation of the fields LAYOUT_CNAB240_COMUM_PQ registers for the      *)
(* Segments P and Q.  It returns the pair (erros, avisos).                 *)
(***************************************************************************)
\* The fields of a segment, in the order of the dict.
campos(segmento) ==
    IF segmento = <<"P">>
    THEN <<"nosso_numero", "data_vencimento", "valor_titulo">>
    ELSE <<"tipo_inscricao", "documento_sacado", "nome_sacado", "endereco_sacado",
           "bairro_sacado", "cep_sacado", "cidade_sacado", "uf_sacado">>

\* LAYOUT_CNAB240_COMUM_PQ: type, required, no_all_zeros and min_len of each
\* field; start and end are in Pos.
LAYOUT_CNAB240_COMUM_PQ ==
    [ nosso_numero     |-> [type |-> "alfanumerico",  required |-> TRUE,  no_all_zeros |-> FALSE, min_len |-> 0],
      data_vencimento  |-> [type |-> "data_ddmmaaaa", required |-> TRUE,  no_all_zeros |-> FALSE, min_len |-> 0],
      valor_titulo     |-> [type |-> "valor",         required |-> TRUE,  no_all_zeros |-> FALSE, min_len |-> 0],
      tipo_inscricao   |-> [type |-> "lista",         required |-> TRUE,  no_all_zeros |-> FALSE, min_len |-> 0],
      documento_sacado |-> [type |-> "numero",        required |-> TRUE,  no_all_zeros |-> TRUE,  min_len |-> 0],
      nome_sacado      |-> [type |-> "texto",         required |-> TRUE,  no_all_zeros |-> FALSE, min_len |-> 3],
      endereco_sacado  |-> [type |-> "texto",         required |-> TRUE,  no_all_zeros |-> FALSE, min_len |-> 0],
      bairro_sacado    |-> [type |-> "texto",         required |-> FALSE, no_all_zeros |-> FALSE, min_len |-> 0],
      cep_sacado       |-> [type |-> "cep",           required |-> TRUE,  no_all_zeros |-> FALSE, min_len |-> 0],
      cidade_sacado    |-> [type |-> "texto",         required |-> TRUE,  no_all_zeros |-> FALSE, min_len |-> 0],
      uf_sacado        |-> [type |-> "uf",            required |-> TRUE,  no_all_zeros |-> FALSE, min_len |-> 0] ]

\* The allowed values of tipo_inscricao.
allowed == { <<"0", "1">>, <<"0", "2">> }

\* The characters of the model that are neither letters nor digits.
NaoAlnum == {" ", "/", ".", "-"}

\* str.isalnum()
isalnum(s) == Len(s) > 0 /\ \A i \in 1..Len(s) : s[i] \notin NaoAlnum

\* An error or a warning of a field of a line.
ErroCampo(cod, linha, campo) == [cod |-> cod, linha |-> linha, campo |-> campo]

\* The day, month and year of DDMMAAAA are within 1..31, 1..12, 1900..2099.
na_faixa(valor) ==
    /\ int(SubSeq(valor, 1, 2)) \in 1..31
    /\ int(SubSeq(valor, 3, 4)) \in 1..12
    /\ int(SubSeq(valor, 5, 8)) \in 1900..2099

\* The type rule of a field that is not blank: the code of the error or of
\* the warning it gives, "" for none.
regra_erro(spec, valor) ==
    CASE spec.type = "numero" ->
            IF ~isdigit(valor) THEN "nao_numerico"
            ELSE IF spec.no_all_zeros /\ \A i \in 1..Len(valor) : valor[i] = "0"
            THEN "so_zeros" ELSE ""
      [] spec.type = "lista" -> IF valor \notin allowed THEN "fora_da_lista" ELSE ""
      [] spec.type = "data_ddmmaaaa" ->
            IF Len(valor) # 8 \/ ~isdigit(valor) THEN "data_formato"
            ELSE IF ~na_faixa(valor) THEN "data_fora_de_faixa" ELSE ""
      [] spec.type = "valor" ->
            IF ~isdigit(valor) THEN "valor_nao_numerico"
            ELSE IF int(valor) <= 0 THEN "valor_zero" ELSE ""
      [] spec.type = "cep" ->
            IF ~isdigit(valor) \/ Len(valor) # 8 THEN "cep_invalido"
            ELSE IF valor = Zeros(0, 8) THEN "cep_zerado" ELSE ""
      [] spec.type = "uf" -> IF valor \notin ESTADOS_BR THEN "uf_invalida" ELSE ""
      [] OTHER -> ""

regra_aviso(spec, valor) ==
    CASE spec.type = "alfanumerico" -> IF ~isalnum(valor) THEN "nao_alfanumerico" ELSE ""
      [] spec.type = "texto" -> IF Len(valor) < spec.min_len THEN "texto_curto" ELSE ""
      [] OTHER -> ""

\* int() of the type rule raises.
regra_levanta(spec, valor) ==
    \/ spec.type = "data_ddmmaaaa" /\ Len(valor) = 8 /\ isdigit(valor) /\ int_raises(valor)
    \/ spec.type = "valor" /\ isdigit(valor) /\ int_raises(valor)

\* The lines the loop does not pass over.
linha_com_campos(l) ==
    /\ ~EmBranco(l)
    /\ Len(l) >= 15
    /\ Slice(l, "tipo") = <<"3">>
    /\ upper(Slice(l, "seg")) \in {<<"P">>, <<"Q">>}

\* One field of one line: what it adds to erros and avisos, and whether it
\* raises.
campo_da_linha(l, numero_linha, nome_campo) ==
    LET spec == LAYOUT_CNAB240_COMUM_PQ[nome_campo]
        valor == strip(Slice(l, nome_campo))
    IN  IF Len(valor) = 0
        THEN [erros |-> IF spec.required
                        THEN <<ErroCampo("obrigatorio_em_branco", numero_linha, nome_campo)>>
                        ELSE <<>>,
              avisos |-> <<>>, levanta |-> FALSE]
        ELSE [erros |-> IF ~regra_levanta(spec, valor) /\ regra_erro(spec, valor) # ""
                        THEN <<ErroCampo(regra_erro(spec, valor), numero_linha, nome_campo)>>
                        ELSE <<>>,
              avisos |-> IF regra_aviso(spec, valor) # ""
                         THEN <<ErroCampo(regra_aviso(spec, valor), numero_linha, nome_campo)>>
                         ELSE <<>>,
              levanta |-> regra_levanta(spec, valor)]

\* The fields of the line of number i, in the order of the dict.
campos_da_linha(ls, i) ==
    IF linha_com_campos(ls[i])
    THEN LET cs == campos(upper(Slice(ls[i], "seg")))
         IN  [k \in 1..Len(cs) |-> campo_da_linha(ls[i], i, cs[k])]
    ELSE <<>>

validar_segmentos_por_layout(codigo_banco, ls) ==
    LET todos == Flatten([i \in 1..Len(ls) |-> campos_da_linha(ls, i)])
    IN  IF codigo_banco \notin LAYOUTS_CNAB240
        THEN Retorno([erros |-> <<>>,
                      avisos |-> <<ErroCampo("sem_layout", 0, "")>>])
        ELSE IF \E k \in 1..Len(todos) : todos[k].levanta THEN Levanta("ValueError")
        ELSE Retorno([erros |-> Flatten([k \in 1..Len(todos) |-> todos[k].erros]),
                      avisos |-> Flatten([k \in 1..Len(todos) |-> todos[k].avisos])])

(***************************************************************************)
(* validators/cnab240/itau_sisdeb.py: validar_cnab240_itau_sisdeb, the     *)
(* validator of the direct-debit files of Itau.  lotes_info maps a batch   *)
(* number to the counters of its batch; ordem keeps the order in which the *)
(* batch numbers entered the dictionary.  The errors are the ones of the   *)
(* structure and of the totals; the messages of the checks of the other    *)
(* fields are left out, the exceptions those checks raise are kept.        *)
(***************************************************************************)
\* _campo_posicional(linha, inicio, fim): positions from 1, both included.
campo_posicional(linha, inicio, fim) ==
    IF inicio < 1 \/ fim < inicio \/ Len(linha) < inicio
    THEN <<>>
    ELSE SubSeq(linha, inicio, Min(fim, Len(linha)))

\* _parse_decimal_str(valor, casas_decimais): the number, 0 for an empty
\* field; decimal_none says that None is returned, decimal_levanta that
\* int(valor) raises.
decimal_none(raw) == Len(strip(raw)) > 0 /\ ~isdigit(strip(raw))

decimal_levanta(raw) == isdigit(strip(raw)) /\ int_raises(strip(raw))

parse_decimal_str(raw) ==
    IF Len(strip(raw)) = 0 \/ decimal_none(raw) THEN 0 ELSE int(strip(raw))

\* The counters of a batch whose header has just been read.
LoteNovo ==
    [detalhes |-> 0, valor_centavos |-> 0, quantidade_moeda |-> 0,
     registros |-> 1, trailer_processado |-> FALSE]

\* lotes_info[lote] = info
Guardar(dic, lote, info) ==
    [x \in DOMAIN dic \cup {lote} |-> IF x = lote THEN info ELSE dic[x]]

\* `if tipo == "0"`
passo_header_arquivo_sisdeb(st, numero_linha) ==
    [st EXCEPT !.erros_header = IF st.header_arquivo
                                THEN Append(@, Erro("mais_de_um_header_arquivo",
                                                    numero_linha, <<>>, 0, 0))
                                ELSE @,
               !.header_arquivo = TRUE]

\* `elif tipo == "1"`: the header of a batch starts the counters of the
\* batch anew, also when the batch is already in lotes_info.
passo_header_lote_sisdeb(st, l, numero_linha) ==
    LET lote == campo_posicional(l, 4, 7)
    IN  [st EXCEPT !.total_lotes_contados = @ + 1,
                   !.erros_lotes = IF lote \in DOMAIN st.lotes_info
                                   THEN Append(@, Erro("mais_de_um_header_lote",
                                                       numero_linha, lote, 0, 0))
                                   ELSE @,
                   !.ordem = IF lote \in DOMAIN st.lotes_info THEN @ ELSE Append(@, lote),
                   !.lotes_info = Guardar(@, lote, LoteNovo)]

\* The parses of the detail: the date at 94-101, the quantity at 105-119,
\* the value at 120-134 and the interest at 180-196.
detalhe_sisdeb_levanta(l) ==
    \/ levanta_data(campo_posicional(l, 94, 101))
    \/ decimal_levanta(campo_posicional(l, 105, 119))
    \/ decimal_levanta(campo_posicional(l, 120, 134))
    \/ decimal_levanta(campo_posicional(l, 180, 196))

\* `elif tipo == "3"`
passo_detalhe_sisdeb(st, l, numero_linha) ==
    LET lote == campo_posicional(l, 4, 7)
        valor_centavos == parse_decimal_str(campo_posicional(l, 120, 134))
        quantidade_valor == parse_decimal_str(campo_posicional(l, 105, 119))
    IN  IF lote \notin DOMAIN st.lotes_info
        THEN [st EXCEPT !.erros_detalhes = Append(@, Erro("detalhe_sem_header",
                                                          numero_linha, lote, 0, 0))]
        ELSE IF detalhe_sisdeb_levanta(l) THEN [st EXCEPT !.exc = "ValueError"]
        ELSE [st EXCEPT
                !.lotes_info = Guardar(@, lote,
                    [st.lotes_info[lote] EXCEPT
                        !.detalhes = @ + 1, !.registros = @ + 1,
                        !.valor_centavos = @ + valor_centavos,
                        !.quantidade_moeda = @ + quantidade_valor]),
                !.qtd_titulos = @ + 1,
                !.valor_total_centavos = @ + valor_centavos,
                !.titulos = Append(@, [linha |-> numero_linha,
                                       valor_centavos |-> valor_centavos])]

\* The comparison of a total of the trailer with the counter of the batch.
erro_total_sisdeb(cod, raw, contado, numero_linha, lote) ==
    IF decimal_none(raw) THEN <<Erro(cod \o "_nao_numerico", numero_linha, lote, 0, 0)>>
    ELSE IF parse_decimal_str(raw) # contado
    THEN <<Erro(cod, numero_linha, lote, parse_decimal_str(raw), contado)>>
    ELSE <<>>

\* `elif tipo == "5"`: the trailer of a batch counts itself and then the
\* count it declares at 18-23 is compared with info_lote["registros"].
passo_trailer_lote_sisdeb(st, l, numero_linha) ==
    LET lote == campo_posicional(l, 4, 7)
        qtd_registros == strip(campo_posicional(l, 18, 23))
        total_valor_raw == campo_posicional(l, 24, 41)
        total_quantidade_raw == campo_posicional(l, 42, 59)
        info == [st.lotes_info[lote] EXCEPT !.registros = @ + 1,
                                            !.trailer_processado = TRUE]
    IN  IF lote \notin DOMAIN st.lotes_info
        THEN [st EXCEPT !.erros_trailer = Append(@, Erro("trailer_sem_header",
                                                         numero_linha, lote, 0, 0))]
        ELSE IF \/ isdigit(qtd_registros) /\ int_raises(qtd_registros)
                \/ decimal_levanta(total_valor_raw)
                \/ decimal_levanta(total_quantidade_raw)
        THEN [st EXCEPT !.exc = "ValueError"]
        ELSE [st EXCEPT
                !.lotes_info = Guardar(@, lote, info),
                !.erros_trailer = @
                    \o (IF ~isdigit(qtd_registros)
                        THEN <<Erro("qtd_registros_nao_numerica", numero_linha, lote, 0, 0)>>
                        ELSE IF int(qtd_registros) # info.registros
                        THEN <<Erro("qtd_registros_lote", numero_linha, lote,
                                    int(qtd_registros), info.registros)>>
                        ELSE <<>>)
                    \o erro_total_sisdeb("valor_lote", total_valor_raw,
                                         info.valor_centavos, numero_linha, lote)
                    \o erro_total_sisdeb("quantidade_lote", total_quantidade_raw,
                                         info.quantidade_moeda, numero_linha, lote)]

\* `elif tipo == "9"`: trailer_arquivo is the number of the line, 0 for None.
passo_trailer_arquivo_sisdeb(st, numero_linha) ==
    [st EXCEPT !.erros_trailer = IF st.trailer_arquivo # 0
                                 THEN Append(@, Erro("dois_trailers_arquivo", 0, <<>>, 0, 0))
                                 ELSE @,
               !.trailer_arquivo = numero_linha]

\* One iteration of the loop.
passo_sisdeb(st, l, numero_linha) ==
    LET tipo == campo_posicional(l, 8, 8)
        contado == [st EXCEPT !.total_registros_contados = @ + 1]
    IN  IF st.exc # "" \/ EmBranco(l) THEN st
        ELSE IF Len(l) < 8
        THEN [st EXCEPT !.erros_detalhes = Append(@, Erro("menos_de_8", numero_linha,
                                                          <<>>, 0, 0))]
        ELSE CASE tipo = <<"0">> -> passo_header_arquivo_sisdeb(contado, numero_linha)
               [] tipo = <<"1">> -> passo_header_lote_sisdeb(contado, l, numero_linha)
               [] tipo = <<"3">> -> passo_detalhe_sisdeb(contado, l, numero_linha)
               [] tipo = <<"5">> -> passo_trailer_lote_sisdeb(contado, l, numero_linha)
               [] tipo = <<"9">> -> passo_trailer_arquivo_sisdeb(contado, numero_linha)
               [] OTHER -> [st EXCEPT !.erros_detalhes =
                               Append(@, Erro("tipo_fora_do_layout", numero_linha,
                                              <<>>, 0, 0))]

RECURSIVE laco_sisdeb(_, _)
laco_sisdeb(ls, n) ==
    IF n = 0
    THEN [lotes_info |-> <<>>, ordem |-> <<>>, header_arquivo |-> FALSE,
          trailer_arquivo |-> 0, total_registros_contados |-> 0,
          total_lotes_contados |-> 0, erros_header |-> <<>>, erros_lotes |-> <<>>,
          erros_detalhes |-> <<>>, erros_trailer |-> <<>>, titulos |-> <<>>,
          qtd_titulos |-> 0, valor_total_centavos |-> 0, exc |-> ""]
    ELSE passo_sisdeb(laco_sisdeb(ls, n - 1), ls[n], n)

\* A count of the trailer of the file against a counter of the loop.
erro_contagem_sisdeb(cod, raw, contado) ==
    IF Len(raw) > 0 /\ isdigit(raw)
    THEN IF int(raw) # contado THEN <<Erro(cod, 0, <<>>, int(raw), contado)>> ELSE <<>>
    ELSE <<Erro(cod \o "_nao_informada", 0, <<>>, 0, 0)>>

\* The checks of the trailer of the file, made after the loop.
erros_trailer_arquivo_sisdeb(st, ls) ==
    LET trailer_arquivo == ls[st.trailer_arquivo]
    IN  (IF campo_posicional(trailer_arquivo, 4, 7) # Fill("9", 4)
         THEN <<Erro("trailer_sem_9999", 0, <<>>, 0, 0)>> ELSE <<>>)
        \o erro_contagem_sisdeb("qtd_lotes", strip(campo_posicional(trailer_arquivo, 18, 23)),
                                st.total_lotes_contados)
        \o erro_contagem_sisdeb("qtd_registros_arquivo",
                                strip(campo_posicional(trailer_arquivo, 24, 29)),
                                st.total_registros_contados)

trailer_arquivo_sisdeb_levanta(st, ls) ==
    /\ st.trailer_arquivo # 0
    /\ \/ levanta_valor(strip(campo_posicional(ls[st.trailer_arquivo], 18, 23)))
       \/ levanta_valor(strip(campo_posicional(ls[st.trailer_arquivo], 24, 29)))

\* The batches of lotes_info whose trailer was not read.
lotes_sem_trailer(st) ==
    Flatten([k \in 1..Len(st.ordem) |->
                IF st.lotes_info[st.ordem[k]].trailer_processado THEN <<>>
                ELSE <<Erro("lote_sem_trailer", 0, st.ordem[k], 0, 0)>>])

validar_cnab240_itau_sisdeb(ls) ==
    LET st == laco_sisdeb(ls, Len(ls))
    IN  IF st.exc # "" THEN Levanta(st.exc)
        ELSE IF trailer_arquivo_sisdeb_levanta(st, ls) THEN Levanta("ValueError")
        ELSE Retorno(
            [erros_header |-> st.erros_header
                 \o (IF st.header_arquivo THEN <<>>
                     ELSE <<Erro("sem_header_arquivo", 0, <<>>, 0, 0)>>),
             erros_lotes |-> st.erros_lotes,
             erros_detalhes |-> st.erros_detalhes,
             erros_trailer |-> st.erros_trailer
                 \o (IF st.trailer_arquivo = 0
                     THEN <<Erro("sem_trailer_arquivo", 0, <<>>, 0, 0)>>
                     ELSE erros_trailer_arquivo_sisdeb(st, ls))
                 \o lotes_sem_trailer(st),
             titulos |-> st.titulos,
             resumo |-> [qtd_titulos |-> st.qtd_titulos,
                         valor_total_centavos |-> st.valor_total_centavos]])

(***************************************************************************)
(* app.py: the handler of POST /validar.  The handler calls the validators *)
(* one after the other; an exception raised by one of them ends the        *)
(* handler.  A step is the name of the function called and its result.     *)
(* The function validar_dados_cedente_vs_arquivo, which has no operator    *)
(* above, is taken to return.                                              *)
(***************************************************************************)
Passo(nome, r) == [nome |-> nome, r |-> r]

validar_tamanho_linhas(ls, layout_esperado) ==
    LET e(i) == IF Len(ls[i]) # layout_esperado /\ ~EmBranco(ls[i])
                THEN <<Erro("tamanho", i, <<>>, Len(ls[i]), layout_esperado)>>
                ELSE <<>>
    IN  Flatten([i \in 1..Len(ls) |-> e(i)])

\* The calls of the CNAB 240 branch, in the order of the code.
passos_240(ls, hoje) ==
    LET codigo_banco == identificar_banco(ls[1])
        itau_sisdeb == codigo_banco = <<"3", "4", "1">> /\ detectar_cnab240_itau_sisdeb(ls)
        sicredi_layout == codigo_banco = Txt748
    IN  << Passo("validar_estrutura_basica_cnab240", validar_estrutura_basica_cnab240(ls)),
           Passo("validar_totais_arquivo_cnab240", validar_totais_arquivo_cnab240(ls)),
           Passo("validar_codigo_banco_consistente",
                 validar_codigo_banco_consistente(ls, codigo_banco)),
           Passo("validar_lotes_cnab240", validar_lotes_cnab240(ls)),
           Passo("validar_qtd_registros_lote_cnab240",
                 validar_qtd_registros_lote_cnab240(ls)),
           Passo("validar_sequencia_registros_lote",
                 validar_sequencia_registros_lote(ls)) >>
        \o (IF ~itau_sisdeb
            THEN <<Passo("validar_segmentos_por_layout",
                         validar_segmentos_por_layout(codigo_banco, ls))>>
                 \o (IF codigo_banco = <<"0", "0", "1">>
                     THEN << Passo("validar_segmentos_avancados_bb",
                                   validar_segmentos_avancados_bb(ls, hoje)),
                             Passo("validar_convenio_carteira_nosso_numero_bb",
                                   validar_convenio_carteira_nosso_numero_bb(ls)) >>
                     ELSE <<>>)
            ELSE <<Passo("validar_cnab240_itau_sisdeb",
                         validar_cnab240_itau_sisdeb(ls))>>)
        \o <<Passo("validar_dados_cedente_vs_arquivo", Retorno(<<>>))>>
        \o (IF ~itau_sisdeb
            THEN << Passo("gerar_resumo_remessa_cnab240",
                          gerar_resumo_remessa_cnab240(codigo_banco, ls)),
                    Passo("listar_titulos_cnab240",
                          listar_titulos_cnab240(codigo_banco, ls)) >>
            ELSE <<>>)
        \o (IF sicredi_layout
            THEN <<Passo("validar_cnab240_sicredi", validar_cnab240_sicredi(ls))>>
            ELSE <<>>)

\* The bank validator the CNAB 400 branch dispatches to.
banco_400(ls) ==
    LET codigo_banco_arquivo ==
            IF Len(ls[1]) >= 79 THEN Slice(ls[1], "banco400") ELSE <<>>
    IN  CASE codigo_banco_arquivo = <<"3", "4", "1">> -> "itau"
          [] codigo_banco_arquivo = Txt748 -> "sicredi"
          [] codigo_banco_arquivo = <<"1", "0", "4">> -> "caixa"
          [] codigo_banco_arquivo = <<"2", "3", "7">> -> "bradesco"
          [] codigo_banco_arquivo = <<"0", "3", "3">> -> "santander"
          [] OTHER -> "bb"

passos_400(ls) ==
    << Passo("validar_cnab400", validar_cnab400(banco_400(ls), ls)),
       Passo("validar_dados_cedente_vs_arquivo", Retorno(<<>>)) >>

\* The steps up to and including the first one that raises.
RECURSIVE executados(_)
executados(passos) ==
    IF Len(passos) = 0 THEN <<>>
    ELSE IF Head(passos).r.exc # "" THEN <<Head(passos)>>
    ELSE <<Head(passos)>> \o executados(Tail(passos))

\* The validators the handler calls for the layout detected.
passos(ls, hoje, layout) ==
    IF ~layout.int THEN <<>>
    ELSE IF layout.layout = 240 /\ Len(ls) > 0 THEN passos_240(ls, hoje)
    ELSE IF layout.layout = 400 /\ Len(ls) > 0 THEN passos_400(ls)
    ELSE <<>>

\* What the handler leaves after the steps feitos have run.
resposta(ls, layout, feitos) ==
    [ exc |-> IF Len(feitos) > 0 THEN feitos[Len(feitos)].r.exc ELSE "",
      val |-> [ layout |-> layout,
                erros_tamanho |->
                    IF layout.int THEN validar_tamanho_linhas(ls, layout.layout)
                    ELSE <<Erro("layout_inconsistente", 0, <<>>, 0, 0)>>,
                chamadas |-> [k \in 1..Len(feitos) |-> feitos[k].nome],
                resultados |-> [k \in 1..Len(feitos) |-> feitos[k].r] ] ]

\* validar(): val holds the layout detected and the calls made; exc is the
\* exception that ended the handler, "" when the page was rendered.
validar(ls, hoje) ==
    resposta(ls, detectar_layout(ls), executados(passos(ls, hoje, detectar_layout(ls))))

(***************************************************************************)
(* Input files.  Each family holds the files of at most MaxLinhas lines    *)
(* drawn from a few kinds of line.                                         *)
(***************************************************************************)
Sup(w) == Fill("sup2", w)

Lote1 == Zeros(1, 4)

Lote2 == Zeros(2, 4)

HeaderArquivo(banco) == Com(Reg240(240, Zeros(0, 4), "0"), "banco", banco)

TrailerArquivo(banco, qtd_lotes, qtd_regs) ==
    Com(Com(Com(Reg240(240, Fill("9", 4), "9"), "banco", banco),
            "q18", qtd_lotes), "q24", qtd_regs)

HeaderLote(lote) == Reg240(240, lote, "1")

TrailerLote(lote, qtd) == Com(Reg240(240, lote, "5"), "q18", qtd)

Detalhe(lote, seq) == Com(Reg240(240, lote, "3"), "seq", seq)

Segmento(banco, lote, seg) ==
    Com(Com(Com(Reg240(240, lote, "3"), "banco", banco), "seq", Zeros(1, 5)), "seg", <<seg>>)

Reg400(n, seq) == Com(Com(Branca(n), "tipo", <<"1">>), "s400", seq)

\* Lines of several lengths, blank and not.
LinhasLayout ==
    { Reg240(n, Lote1, "3") : n \in {2, 240, 400} } \cup { Branca(n) : n \in {0, 240, 400} }

\* File header and trailer with the two totals, batch header, blank lines.
LinhasTotais ==
    { HeaderArquivo(Zeros(1, 3)), HeaderLote(Lote1), Branca(240), Branca(0),
      TrailerArquivo(Zeros(1, 3), Zeros(0, 6), Zeros(2, 6)),
      TrailerArquivo(Zeros(1, 3), Zeros(1, 6), Zeros(3, 6)),
      TrailerArquivo(Zeros(1, 3), Zeros(0, 6), Sup(6)) }

\* Batches: headers, details and trailers of two batches.
LinhasLotes ==
    { HeaderLote(Lote1), Detalhe(Lote1, Zeros(1, 5)), Detalhe(Lote2, Zeros(1, 5)),
      TrailerLote(Lote2, Zeros(1, 6)),
      TrailerLote(Lote1, Zeros(2, 6)), TrailerLote(Lote1, Zeros(3, 6)),
      TrailerLote(Lote1, Sup(6)), TrailerLote(Lote1, Fill("A", 6)) }

\* Details of two batches with their sequence numbers.
LinhasSeq ==
    { Detalhe(Lote1, Zeros(n, 5)) : n \in 1..4 }
    \cup { Detalhe(Lote2, Zeros(1, 5)), Detalhe(Lote1, Sup(5)),
           Detalhe(Lote1, Fill("A", 5)), Branca(240) }

\* CNAB 400 records with their sequence numbers.
Linhas400 ==
    { Reg400(400, Zeros(n, 6)) : n \in {0, 1, 2, 3, 5} }
    \cup { Reg400(400, Sup(6)), Reg400(400, Fill(" ", 6)), Branca(400) }

\* CNAB 240 files of Itau with and without the SISDEB details, and of BB.
LinhasApp ==
    { HeaderArquivo(<<"3", "4", "1">>), HeaderArquivo(Zeros(1, 3)),
      Segmento(<<"3", "4", "1">>, Lote1, "A"), Segmento(<<"3", "4", "1">>, Lote1, "P"),
      Segmento(Zeros(1, 3), Lote1, "P"),
      TrailerArquivo(<<"3", "4", "1">>, Zeros(0, 6), Zeros(3, 6)),
      TrailerArquivo(<<"3", "4", "1">>, Zeros(0, 6), Sup(6)) }

\* A Segment P with its movement code, Nosso Numero, due date and value.
SegmentoP(banco, nn, venc, valor) ==
    Com(Com(Com(Com(Segmento(banco, Lote1, "P"), "cod_mov", <<"0", "1">>),
                "nosso_numero", nn), "data_vencimento", venc), "valor_titulo", valor)

Venc2031 == <<"3", "1", "1", "2", "2", "0", "3", "1">>

\* Batch headers and segments of BB and of Sicredi.
LinhasPacotes ==
    { Com(HeaderLote(Lote1), "convenio", Zeros(1234567, 9)),
      Com(HeaderLote(Lote1), "convenio", Fill("A", 9)),
      SegmentoP(Zeros(1, 3), Zeros(1234567, 7) \o Zeros(1, 10), Venc2031, Zeros(100, 15)),
      SegmentoP(Zeros(1, 3), Zeros(1, 17), Venc2031, Fill("A", 15)),
      SegmentoP(Zeros(1, 3), Zeros(1, 17), Venc2031, Sup(15)),
      SegmentoP(Txt748, Zeros(1, 17), Venc2031, Zeros(100, 15)),
      Segmento(Txt748, Lote1, "Q"),
      HeaderArquivo(Txt748) }

ArquivosLayout == SeqAte(LinhasLayout, MaxLinhas)

ArquivosTotais == SeqAte(LinhasTotais, MaxLinhas)

ArquivosLotes == SeqAte(LinhasLotes, MaxLinhas)

ArquivosSeq == SeqAte(LinhasSeq, MaxLinhas)

Arquivos400 == SeqAte(Linhas400, MaxLinhas)

ArquivosApp == SeqAte(LinhasApp, MaxLinhas)

ArquivosPacotes == SeqAte(LinhasPacotes, MaxLinhas)

\* A date DDMMAAAA.
Data8(dia, mes, ano) == Zeros(dia, 2) \o Zeros(mes, 2) \o Zeros(ano, 4)

\* A Segment R of the first batch with the date and the value of its second
\* discount.
SegmentoR(banco, data2, valor2) ==
    LET l == Com(Segmento(banco, Lote1, "R"), "seq", Zeros(3, 5))
    IN  [i \in 1..Len(l) |->
           IF i \in 19..26 THEN data2[i - 18]
           ELSE IF i \in 27..41 THEN valor2[i - 26] ELSE l[i]]

\* Segments P of BB with due dates that are real dates and not, within the
\* years 1900 to 2099 and not, a Segment P of a bank without layout, and the
\* Segments Q and R that follow a Segment P.
LinhasTitulos ==
    { SegmentoP(Zeros(1, 3), Zeros(7, 20), Data8(15, 4, 2024), Zeros(12345, 15)),
      SegmentoP(Zeros(1, 3), Zeros(8, 20), Data8(30, 2, 2024), Zeros(0, 15)),
      SegmentoP(Zeros(1, 3), Zeros(9, 20), Data8(1, 1, 2100), Zeros(100, 15)),
      SegmentoP(Zeros(1, 3), Zeros(9, 20), Sup(8), Zeros(100, 15)),
      SegmentoP(Zeros(1, 3), Zeros(9, 20), Data8(29, 2, 2024), Fill(" ", 15)),
      SegmentoP(Zeros(999, 3), Zeros(7, 20), Data8(15, 4, 2024), Zeros(12345, 15)),
      Com(Com(Segmento(Zeros(1, 3), Lote1, "Q"), "seq", Zeros(2, 5)),
          "nome_sacado", Fill("A", 3) \o Fill(" ", 37)),
      SegmentoR(Zeros(1, 3), Data8(10, 4, 2024), Zeros(500, 15)) }

ArquivosTitulos == SeqAte(LinhasTitulos, MaxLinhas)

\* CNAB 400 records of the types 1, 7, 5, 6 and 2, with and without text in
\* positions 2-394, all with the sequence number 000000.
RegTipo400(tipo, texto) ==
    Com(Com(Com(Branca(400), "tipo400", <<tipo>>), "texto400", texto), "s400", Zeros(0, 6))

Texto03A == <<"0", "3", "A">>

Texto07Sup == <<"0", "7">> \o Sup(6)

Texto0Sup == <<"0">> \o Sup(6)

LinhasTipos400 ==
    { RegTipo400("1", <<>>), RegTipo400("7", <<>>), RegTipo400("7", Texto03A),
      RegTipo400("5", <<>>), RegTipo400("5", Texto03A), RegTipo400("6", Texto03A),
      RegTipo400("5", Texto07Sup), RegTipo400("2", Texto0Sup) }

ArquivosTipos400 == SeqAte(LinhasTipos400, MaxLinhas)

\* Sicredi detail segments of two batches, the trailer of the first batch and
\* the header of the second, and a Segment Q cut short at 239 characters.
LinhasSicredi ==
    { Segmento(Txt748, Lote1, "P"), Segmento(Txt748, Lote1, "Q"),
      Segmento(Txt748, Lote2, "Q"), Segmento(Txt748, Lote2, "R"),
      Segmento(Txt748, Lote2, "S"), Segmento(Txt748, Lote1, "Y"),
      TrailerLote(Lote1, Zeros(3, 6)), HeaderLote(Lote2),
      SubSeq(Segmento(Txt748, Lote1, "Q"), 1, 239) }

ArquivosSicredi == SeqAte(LinhasSicredi, MaxLinhas)

\* Itau detail lines of Segment A (written "A" and "a") and of Segment P, a
\* type-3 line cut short at 10 characters, a Segment A with a value of 100
\* cents, a batch header and two batch trailers that declare 2 and 3 records.
Txt341 == <<"3", "4", "1">>

LinhasSisdeb ==
    { Segmento(Txt341, Lote1, "A"), Segmento(Txt341, Lote1, "a"),
      Segmento(Txt341, Lote1, "P"),
      SubSeq(Segmento(Txt341, Lote1, "A"), 1, 10),
      Com(Segmento(Txt341, Lote1, "A"), "valor_sisdeb", Zeros(100, 15)),
      Com(HeaderLote(Lote1), "banco", Txt341),
      Com(TrailerLote(Lote1, Zeros(2, 6)), "banco", Txt341),
      Com(TrailerLote(Lote1, Zeros(3, 6)), "banco", Txt341) }

ArquivosSisdeb == SeqAte(LinhasSisdeb, MaxLinhas)

\* A Segment Q of BB with its payer fields.
SegmentoQ(tipo_inscricao, documento, nome, endereco, bairro, cep, cidade, uf) ==
    Com(Com(Com(Com(Com(Com(Com(Com(
        Com(Segmento(Zeros(1, 3), Lote1, "Q"), "seq", Zeros(2, 5)),
        "tipo_inscricao", tipo_inscricao), "documento_sacado", documento),
        "nome_sacado", nome), "endereco_sacado", endereco), "bairro_sacado", bairro),
        "cep_sacado", cep), "cidade_sacado", cidade), "uf_sacado", uf)

\* Segments P of BB whose due date is a day of the calendar, 31 February,
\* a day of the year 2100, blank (with a blank value) and made of superscript
\* digits; Segments Q with every field filled, with the optional bairro
\* blank and with every field blank; a Segment P cut short at 14 characters.
LinhasCampos ==
    { SegmentoP(Zeros(1, 3), Zeros(7, 20), Data8(15, 4, 2024), Zeros(12345, 15)),
      SegmentoP(Zeros(1, 3), Zeros(7, 20), Data8(31, 2, 2024), Zeros(12345, 15)),
      SegmentoP(Zeros(1, 3), Zeros(7, 20), Data8(1, 1, 2100), Zeros(12345, 15)),
      SegmentoP(Zeros(1, 3), Zeros(7, 20), Fill(" ", 8), Fill(" ", 15)),
      SegmentoP(Zeros(1, 3), Zeros(7, 20), Sup(8), Zeros(12345, 15)),
      SegmentoQ(<<"0", "1">>, Zeros(123, 15), Fill("A", 5), Fill("A", 5), Fill("A", 5),
                Zeros(1310100, 8), Fill("A", 5), <<"S", "P">>),
      SegmentoQ(<<"0", "1">>, Zeros(123, 15), Fill("A", 5), Fill("A", 5), <<>>,
                Zeros(1310100, 8), Fill("A", 5), <<"S", "P">>),
      SegmentoQ(<<>>, <<>>, <<>>, <<>>, <<>>, <<>>, <<>>, <<>>),
      SubSeq(SegmentoP(Zeros(1, 3), Zeros(7, 20), Data8(15, 4, 2024), Zeros(12345, 15)),
             1, 14) }

ArquivosCampos == SeqAte(LinhasCampos, MaxLinhas)

\* A Segment P of BB with the Nosso Numero nn, left-aligned in its field.
SegmentoPNN(nn) == SegmentoP(Zeros(1, 3), nn, Data8(15, 4, 2024), Zeros(12345, 15))

\* Batch headers of BB with a convenio of 7, 4 and 6 digits; Segments P whose
\* Nosso Numero has 17 and 12 digits, with and without the convenio in front,
\* and 3 digits; a Segment P cut short at 59 characters.
LinhasConvenio ==
    { Com(HeaderLote(Lote1), "convenio", Zeros(1234567, 9)),
      Com(HeaderLote(Lote1), "convenio", Zeros(1234, 9)),
      Com(HeaderLote(Lote1), "convenio", Zeros(123456, 9)),
      SegmentoPNN(Zeros(1234567, 7) \o Zeros(1, 10)),
      SegmentoPNN(Zeros(7654321, 7) \o Zeros(1, 10)),
      SegmentoPNN(Zeros(123456, 6) \o Zeros(1, 6)),
      SegmentoPNN(Zeros(9999, 4) \o Zeros(1, 8)),
      SegmentoPNN(Zeros(123, 3)),
      SubSeq(SegmentoPNN(Zeros(123456, 6) \o Zeros(1, 6)), 1, 59) }

ArquivosConvenio == SeqAte(LinhasConvenio, MaxLinhas)

\* A CNAB 400 record of one type with its sequence number.
Registro400(tipo, seq) ==
    Com(Com(Branca(400), "tipo400", <<tipo>>), "s400", Zeros(seq, 6))

\* A detail with the value of its title, in cents.
Detalhe400(tipo, seq, valor) == Com(Registro400(tipo, seq), "valor400", Zeros(valor, 13))

\* A trailer declaring a number of titles and a total value.
Trailer400(seq, qtd, valor) ==
    Com(Com(Registro400("9", seq), "qtd_trailer400", qtd), "valor_trailer400", valor)

\* Headers, details and trailers of CNAB 400: details of type 1 with a
\* value and without one, a detail of type 7, trailers that declare one
\* title of 100 cents and two titles of 200 cents, a trailer whose count
\* holds a superscript digit, and a header cut at 399 characters.
LinhasTrailer400 ==
    { Registro400("0", 1), Detalhe400("1", 2, 100), Detalhe400("1", 2, 0),
      Detalhe400("7", 2, 100),
      Trailer400(3, Zeros(1, 8), Zeros(100, 14)),
      Trailer400(3, Zeros(2, 8), Zeros(200, 14)),
      Trailer400(3, Sup(8), Zeros(100, 14)),
      SubSeq(Registro400("0", 1), 1, 399) }

ArquivosTrailer400 == SeqAte(LinhasTrailer400, MaxLinhas)

\* Files with titles, one layout each: Segments P of BB with a value, with
\* a blank value and cut at 99 characters; a batch of the direct-debit
\* layout of Itau with details with and without a value; CNAB 400 details
\* of types 1 and 7 with a value and of type 1 without one, and a record of
\* the BRB layout with a value.
LinhasResumo240 ==
    { SegmentoP(Zeros(1, 3), Zeros(7, 20), Data8(15, 4, 2024), Zeros(12345, 15)),
      SegmentoP(Zeros(1, 3), Zeros(8, 20), Data8(1, 1, 2100), Zeros(100, 15)),
      SegmentoP(Zeros(1, 3), Zeros(9, 20), Data8(29, 2, 2024), Fill(" ", 15)),
      SubSeq(SegmentoP(Zeros(1, 3), Zeros(7, 20), Data8(15, 4, 2024), Zeros(12345, 15)),
             1, 99) }

LinhasResumoSisdeb ==
    { Com(HeaderLote(Lote1), "banco", Txt341),
      Com(Segmento(Txt341, Lote1, "A"), "valor_sisdeb", Zeros(100, 15)),
      Segmento(Txt341, Lote1, "A"),
      Com(TrailerLote(Lote1, Zeros(3, 6)), "banco", Txt341) }

LinhasResumo400 ==
    { Registro400("0", 1), Detalhe400("1", 2, 100), Detalhe400("7", 2, 100),
      Detalhe400("1", 3, 0), Com(Branca(400), "valor_brb", Zeros(250, 14)) }

ArquivosResumo ==
    SeqAte(LinhasResumo240, MaxLinhas) \cup SeqAte(LinhasResumoSisdeb, MaxLinhas)
    \cup SeqAte(LinhasResumo400, MaxLinhas)

\* A Segment R of BB, of the first batch.
SegmentoRBB == Com(Segmento(Zeros(1, 3), Lote1, "R"), "seq", Zeros(3, 5))

\* Segments R of BB: one without discount, fine or debit; one with the code
\* 9 in the second discount, whole and cut at 159 characters; one with the
\* code 1 in the third discount and neither date nor value; one with a fine
\* of code 1, a date and the value zero; one with letters in the bank of
\* the automatic debit.  With them a Segment P and a Segment Q.
LinhasSegmentoR ==
    { SegmentoRBB,
      Com(SegmentoRBB, "cod_desc2", <<"9">>),
      SubSeq(Com(SegmentoRBB, "cod_desc2", <<"9">>), 1, 159),
      Com(SegmentoRBB, "cod_desc3", <<"1">>),
      Com(Com(Com(SegmentoRBB, "cod_multa", <<"1">>), "data_multa", Data8(10, 4, 2024)),
          "valor_multa", Zeros(0, 15)),
      Com(SegmentoRBB, "banco_deb", <<"A", "B", "C">>),
      SegmentoP(Zeros(1, 3), Zeros(7, 20), Venc2031, Zeros(100, 15)),
      Com(Com(Segmento(Zeros(1, 3), Lote1, "Q"), "seq", Zeros(2, 5)),
          "nome_sacado", Fill("A", 3) \o Fill(" ", 37)) }

ArquivosSegmentoR == SeqAte(LinhasSegmentoR, MaxLinhas)

(***************************************************************************)
(* Input strings: digitable lines, CNPJ numbers and DDMMYY date fields.    *)
(***************************************************************************)
\* Two digitable lines of 47 digits whose four check digits are right.
LinhaBase1 ==
    <<"0", "0", "1", "9", "1", "2", "3", "4", "5", "4", "6", "7",
      "8", "9", "0", "1", "2", "3", "4", "5", "7", "6", "7", "8",
      "9", "0", "1", "2", "3", "4", "5", "7", "7", "1", "0", "0",
      "0", "0", "0", "0", "0", "0", "1", "2", "3", "4", "5">>

LinhaBase2 ==
    <<"7", "4", "8", "9", "0", "0", "0", "0", "0", "5", "0", "0",
      "0", "0", "0", "0", "0", "0", "0", "0", "0", "0", "0", "0",
      "0", "0", "0", "0", "0", "0", "0", "0", "1", "0", "0", "0",
      "0", "0", "0", "0", "0", "0", "0", "0", "0", "0", "2">>

LinhasBase == {LinhaBase1, LinhaBase2}

\* s with its character i replaced by c.
Troca(s, i, c) == [s EXCEPT ![i] = c]

\* s with the digit of every position of P replaced by the next digit.
Avanca(s, P) ==
    [i \in 1..Len(s) |-> IF i \in P THEN DecChar((DecVal(s[i]) + 1) % 10) ELSE s[i]]

\* s with the text sep after every character of s.
RECURSIVE Intercala(_, _)
Intercala(s, sep) ==
    IF Len(s) = 0 THEN <<>> ELSE <<s[1]>> \o sep \o Intercala(Tail(s), sep)

\* The positions of the three blocks and of the four check digits.
PosBlocos == 1..32

PosDVs == {10, 21, 32, 33}

TextosLinha ==
    { Troca(b, i, c) : b \in LinhasBase, i \in PosBlocos, c \in Dec }
    \cup { Avanca(b, P) : b \in LinhasBase, P \in SUBSET PosDVs }
    \cup { Fill("0", n) : n \in {0, 46, 47, 48} }
    \cup { Intercala(LinhaBase1, <<".">>), Intercala(Fill("0", 47), <<" ">>),
           Intercala(Fill("0", 46), <<"-">>),
           Fill("0", 46) \o Sup(1), Fill("0", 47) \o Sup(1), Sup(47), Sup(6) }

\* "11.222.333/0001-81"
CnpjBase ==
    <<"1", "1", ".", "2", "2", "2", ".", "3", "3", "3", "/", "0",
      "0", "0", "1", "-", "8", "1">>

\* The positions of the fourteen digits of CnpjBase.
PosCnpj == { i \in 1..Len(CnpjBase) : CnpjBase[i] \in Dec }

TextosCnpj ==
    { Troca(CnpjBase, i, c) : i \in PosCnpj, c \in Dec }
    \cup { limpar_numero(Troca(CnpjBase, i, c)) : i \in PosCnpj, c \in Dec }
    \cup { Fill("1", 14), Fill("0", 13), Sup(14), Troca(CnpjBase, 1, "sup2"),
           Troca(CnpjBase, Len(CnpjBase), "sup2") }

\* Fields DDMMYY, real dates and not, bare and between spaces, and fields
\* that are not six digits.
DiasData == {0, 1, 15, 28, 29, 30, 31, 32}

MesesData == {0, 1, 2, 4, 12, 13}

AnosData == {0, 1, 24, 69, 70, 99}

TextosData ==
    { Zeros(dia, 2) \o Zeros(mes, 2) \o Zeros(ano, 2) :
        dia \in DiasData, mes \in MesesData, ano \in AnosData }
    \cup { <<" ">> \o Zeros(dia, 2) \o Zeros(2, 2) \o Zeros(24, 2) \o <<" ", " ">> :
             dia \in DiasData }
    \cup { <<>>, Fill(" ", 6), Zeros(1502, 4), Zeros(1502024, 7), Sup(6),
           Zeros(1502, 4) \o Sup(2), <<"A">> \o Zeros(50224, 5),
           Zeros(15, 2) \o <<" ">> \o Zeros(224, 3) }

Textos == TextosLinha \cup TextosCnpj \cup TextosData

\* The file given to the validators of files while a string is examined.
ArquivoDoTexto == <<HeaderArquivo(Zeros(1, 3))>>

\* The values of datetime.today().date().
Hojes == { <<2026, 1, 1>>, <<2032, 1, 1>> }

(***************************************************************************)
(* Operations: a validator is applied to the input, and then applied to it *)
(* once more.  No function assigns to the list of lines it is given nor to *)
(* a module-level table.                                                   *)
(***************************************************************************)
\* A run of the function nome that returns r; dia is the date the run has
\* read from the clock, <<>> when the function does not read it.  The first
\* run finds op empty; the second run, of the same function on the same
\* input, keeps in antes the result and the date of the first.
ChamarNoDia(nome, r, dia) ==
    /\ op \in {"", nome}
    /\ op = nome => antes = <<>>
    /\ op' = nome
    /\ ret' = r
    /\ relogio' = dia
    /\ antes' = IF op = "" THEN antes ELSE <<[ret |-> ret, relogio |-> relogio]>>
    /\ UNCHANGED <<linhas, entrada, tabelas>>

Chamar(nome, r) == ChamarNoDia(nome, r, <<>>)

DetectarLayout == Chamar("detectar_layout", Retorno(detectar_layout(linhas)))

EstruturaBasica ==
    Chamar("validar_estrutura_basica_cnab240", validar_estrutura_basica_cnab240(linhas))

TotaisArquivo ==
    Chamar("validar_totais_arquivo_cnab240", validar_totais_arquivo_cnab240(linhas))

CodigoBanco ==
    /\ Len(linhas) > 0
    /\ Chamar("validar_codigo_banco_consistente",
              validar_codigo_banco_consistente(linhas, identificar_banco(linhas[1])))

Lotes == Chamar("validar_lotes_cnab240", validar_lotes_cnab240(linhas))

QtdRegistrosLote ==
    Chamar("validar_qtd_registros_lote_cnab240", validar_qtd_registros_lote_cnab240(linhas))

SequenciaRegistrosLote ==
    Chamar("validar_sequencia_registros_lote", validar_sequencia_registros_lote(linhas))

DetectarSisdeb ==
    Chamar("detectar_cnab240_itau_sisdeb", Retorno(detectar_cnab240_itau_sisdeb(linhas)))

ConvenioBB ==
    Chamar("validar_convenio_carteira_nosso_numero_bb",
           validar_convenio_carteira_nosso_numero_bb(linhas))

AvancadosBB ==
    \E hoje \in Hojes :
        ChamarNoDia("validar_segmentos_avancados_bb",
                    validar_segmentos_avancados_bb(linhas, hoje), hoje)

Sicredi240 == Chamar("validar_cnab240_sicredi", validar_cnab240_sicredi(linhas))

Cnab400 ==
    \E banco \in Bancos400 : Chamar(banco, validar_cnab400(banco, linhas))

Validar == \E hoje \in Hojes : ChamarNoDia("validar", validar(linhas, hoje), hoje)

ListarTitulos ==
    /\ Len(linhas) > 0
    /\ Chamar("listar_titulos_cnab240",
              listar_titulos_cnab240(identificar_banco(linhas[1]), linhas))

LinhaDigitavel ==
    Chamar("validar_linha_digitavel_boleto", validar_linha_digitavel_boleto(entrada))

Cnpj == Chamar("validar_cnpj", validar_cnpj(entrada))

ParseData400 == Chamar("_parse_data_cnab400", parse_data_cnab400(entrada))

Resumo ==
    /\ Len(linhas) > 0
    /\ Chamar("gerar_resumo_remessa_cnab240",
              gerar_resumo_remessa_cnab240(identificar_banco(linhas[1]), linhas))

Sisdeb ==
    Chamar("validar_cnab240_itau_sisdeb", validar_cnab240_itau_sisdeb(linhas))

SegmentosPorLayout ==
    /\ Len(linhas) > 0
    /\ Chamar("validar_segmentos_por_layout",
              validar_segmentos_por_layout(identificar_banco(linhas[1]), linhas))

Next ==
    \/ DetectarLayout
    \/ EstruturaBasica
    \/ TotaisArquivo
    \/ CodigoBanco
    \/ Lotes
    \/ QtdRegistrosLote
    \/ SequenciaRegistrosLote
    \/ DetectarSisdeb
    \/ ConvenioBB
    \/ AvancadosBB
    \/ Sicredi240
    \/ Cnab400
    \/ Validar
    \/ ListarTitulos
    \/ LinhaDigitavel
    \/ Cnpj
    \/ ParseData400
    \/ SegmentosPorLayout
    \/ Sisdeb
    \/ Resumo

\* The state before the first run, but for the input.
Partida ==
    /\ tabelas = [BANCOS_CNAB |-> BANCOS_CNAB, LAYOUTS_CNAB240 |-> LAYOUTS_CNAB240]
    /\ op = ""
    /\ ret = Retorno(<<>>)
    /\ relogio = <<>>
    /\ antes = <<>>

Inicio(Arquivos) == linhas \in Arquivos /\ entrada = <<>> /\ Partida

InitLayout == Inicio(ArquivosLayout)

InitTotais == Inicio(ArquivosTotais)

InitLotes == Inicio(ArquivosLotes)

InitSeq == Inicio(ArquivosSeq)

Init400 == Inicio(Arquivos400)

InitApp == Inicio(ArquivosApp)

InitPacotes == Inicio(ArquivosPacotes)

InitTitulos == Inicio(ArquivosTitulos)

InitTipos400 == Inicio(ArquivosTipos400)

InitSicredi == Inicio(ArquivosSicredi)

InitSisdeb == Inicio(ArquivosSisdeb)

InitCampos == Inicio(ArquivosCampos)

InitConvenio == Inicio(ArquivosConvenio)

InitTrailer400 == Inicio(ArquivosTrailer400)

InitResumo == Inicio(ArquivosResumo)

InitSegmentoR == Inicio(ArquivosSegmentoR)

InitTexto == linhas = ArquivoDoTexto /\ entrada \in Textos /\ Partida

Init ==
    \/ Inicio(ArquivosLayout \cup ArquivosTotais \cup ArquivosLotes \cup ArquivosSeq
              \cup Arquivos400 \cup ArquivosApp \cup ArquivosPacotes
              \cup ArquivosTitulos \cup ArquivosTipos400
              \cup ArquivosSicredi \cup ArquivosSisdeb \cup ArquivosCampos
              \cup ArquivosConvenio \cup ArquivosTrailer400
              \cup ArquivosResumo \cup ArquivosSegmentoR)
    \/ InitTexto

SpecLayout == InitLayout /\ [][Next]_vars

SpecTotais == InitTotais /\ [][Next]_vars

SpecLotes == InitLotes /\ [][Next]_vars

SpecSeq == InitSeq /\ [][Next]_vars

Spec400 == Init400 /\ [][Next]_vars

SpecApp == InitApp /\ [][Next]_vars

SpecPacotes == InitPacotes /\ [][Next]_vars

SpecTitulos == InitTitulos /\ [][Next]_vars

SpecTipos400 == InitTipos400 /\ [][Next]_vars

SpecSicredi == InitSicredi /\ [][Next]_vars

SpecSisdeb == InitSisdeb /\ [][Next]_vars

SpecCampos == InitCampos /\ [][Next]_vars

SpecConvenio == InitConvenio /\ [][Next]_vars

SpecTrailer400 == InitTrailer400 /\ [][Next]_vars

SpecResumo == InitResumo /\ [][Next]_vars

SpecSegmentoR == InitSegmentoR /\ [][Next]_vars

SpecTexto == InitTexto /\ [][Next]_vars

Spec == Init /\ [][Next]_vars

(***************************************************************************)
(* Properties.                                                             *)
(***************************************************************************)
\* A text made of decimal digits only.
Decimal(s) == Len(s) > 0 /\ \A i \in 1..Len(s) : s[i] \in Dec

\* The line numbers of the non-blank lines of the input.
NaoBrancas == { i \in 1..Len(linhas) : ~AllSpace(linhas[i]) }

\* The positions of the errors of a kind in the result; those of a batch;
\* those of a line.
Erros ==
    IF ret.exc # "" THEN <<>>
    ELSE IF op \in Bancos400 THEN ret.val.erros_registros
    ELSE ret.val

ErrosDe(cod) == { k \in 1..Len(Erros) : Erros[k].cod = cod }

ErrosDoLote(cod, lote) == { k \in ErrosDe(cod) : Erros[k].lote = lote }

ErrosDaLinha(cod, i) == { k \in ErrosDe(cod) : Erros[k].linha = i }

\* C1: every validator returns its normal result and raises no exception,
\* whatever the lines (an empty sequence, blank lines, any length or content).
C1_NenhumaExcecao == ret.exc = ""

\* C2: format detection returns 240 (400) exactly when the set of lengths of
\* the non-blank lines is {240} ({400}); otherwise it returns that set; it
\* never raises.
C2_DetectarLayout ==
    op = "detectar_layout" =>
        LET T == { Len(linhas[i]) : i \in NaoBrancas }
        IN  /\ ret.exc = ""
            /\ (ret.val.int /\ ret.val.layout = 240) <=> (T = {240})
            /\ (ret.val.int /\ ret.val.layout = 400) <=> (T = {400})
            /\ ret.val.int => ret.val.layout \in {240, 400}
            /\ ~ret.val.int => ret.val.set = T

\* C2 happens: 240 is returned for a file that also holds a blank line of
\* another length.
C2_Witness ==
    /\ op = "detectar_layout"
    /\ ret.val.int /\ ret.val.layout = 240
    /\ \E i \in 1..Len(linhas) : AllSpace(linhas[i]) /\ Len(linhas[i]) # 240

\* The file trailer: the first line of 29 characters or more of type 9; 0
\* when the file has none.
TrailerDoArquivo ==
    LET t == { i \in 1..Len(linhas) :
                 Len(linhas[i]) >= 29 /\ Slice(linhas[i], "tipo") = <<"9">> }
    IN  IF t = {} THEN 0 ELSE CHOOSE i \in t : \A j \in t : i <= j

\* C3: when the file trailer declares N records and the file has M non-blank
\* lines, the totals check gives exactly one record-count error, naming N and
\* M, if M # N, and no record-count error if M = N.
C3_TotalDeRegistros ==
    (/\ op = "validar_totais_arquivo_cnab240"
     /\ TrailerDoArquivo # 0
     /\ Decimal(Slice(linhas[TrailerDoArquivo], "q18"))
     /\ Decimal(Slice(linhas[TrailerDoArquivo], "q24")))
    => LET N == int(Slice(linhas[TrailerDoArquivo], "q24"))
           M == Cardinality(NaoBrancas)
           E == ErrosDe("qtd_regs_difere")
       IN  /\ ret.exc = ""
           /\ IF M # N
              THEN Cardinality(E) = 1 /\ \A k \in E : ret.val[k].a = N /\ ret.val[k].b = M
              ELSE E = {}

\* The lines of a batch: type 1, 3 or 5 with the batch number.
DoLote(i, lote) ==
    /\ i \in NaoBrancas
    /\ Len(linhas[i]) >= 8
    /\ Slice(linhas[i], "lote") = lote

TipoDe(i) == Slice(linhas[i], "tipo")

\* C4: for every batch number of a type-3 or type-5 line, the completeness
\* check gives exactly one missing-header error for the batch if the file has
\* no type-1 line with that number, and none if it has one, in any order of
\* the lines.
C4_LoteSemHeader ==
    op = "validar_lotes_cnab240" =>
        /\ ret.exc = ""
        /\ \A i \in NaoBrancas :
              (Len(linhas[i]) >= 8 /\ TipoDe(i) \in {<<"3">>, <<"5">>}) =>
                  LET lote == Slice(linhas[i], "lote")
                      E == ErrosDoLote("sem_header", lote)
                  IN  IF \E j \in 1..Len(linhas) : DoLote(j, lote) /\ TipoDe(j) = <<"1">>
                      THEN E = {}
                      ELSE Cardinality(E) = 1

\* C4 happens: a batch whose header comes after its detail gets no error
\* while another batch, without header, gets one.
C4_Witness ==
    /\ op = "validar_lotes_cnab240"
    /\ \E i, j \in 1..Len(linhas) :
          /\ i < j
          /\ DoLote(i, Lote1) /\ TipoDe(i) = <<"3">>
          /\ DoLote(j, Lote1) /\ TipoDe(j) = <<"1">>
    /\ ErrosDoLote("sem_header", Lote1) = {}
    /\ ErrosDoLote("sem_header", Lote2) # {}

\* C5: for every batch whose trailer has an all-digit count (positions
\* 18-23), the record-count check gives an error naming both numbers if and
\* only if the count differs from the number of lines of the batch; a count
\* that is not all digits gives its own single error and no comparison.
C5_QtdRegistrosDoLote ==
    op = "validar_qtd_registros_lote_cnab240" =>
        /\ ret.exc = ""
        /\ \A t \in NaoBrancas :
              (/\ Len(linhas[t]) >= 23
               /\ TipoDe(t) = <<"5">>
               /\ \A u \in (t + 1)..Len(linhas) :
                     ~(DoLote(u, Slice(linhas[t], "lote")) /\ TipoDe(u) = <<"5">>))
              => LET lote == Slice(linhas[t], "lote")
                     qtd == Slice(linhas[t], "q18")
                     real == Cardinality({ j \in 1..Len(linhas) :
                                 DoLote(j, lote) /\ TipoDe(j) \in {<<"1">>, <<"3">>, <<"5">>} })
                     D == ErrosDoLote("qtd_lote_difere", lote)
                     N == ErrosDoLote("qtd_nao_numerica", lote)
                 IN  IF Decimal(qtd)
                     THEN /\ (D # {}) <=> (int(qtd) # real)
                          /\ \A k \in D : ret.val[k].a = int(qtd) /\ ret.val[k].b = real
                          /\ N = {}
                     ELSE Cardinality(N) = 1 /\ D = {}

\* The type-3 records with a sequence number, and the one before record i in
\* its batch (0 when i is the first).
ComSeq(i) ==
    /\ i \in NaoBrancas
    /\ Len(linhas[i]) >= 13
    /\ TipoDe(i) = <<"3">>
    /\ isdigit(Slice(linhas[i], "seq"))

Anterior(i) ==
    LET P == { j \in 1..(i - 1) :
                 ComSeq(j) /\ Slice(linhas[j], "lote") = Slice(linhas[i], "lote") }
    IN  IF P = {} THEN 0 ELSE CHOOSE j \in P : \A k \in P : k <= j

\* C6: within each batch, in file order, the sequence check gives exactly one
\* error, citing the number found and the number expected, for each type-3
\* record whose sequence number is not one more than that of the previous
\* type-3 record of the batch, and nothing otherwise.
C6_SequenciaNoLote ==
    op = "validar_sequencia_registros_lote" =>
        /\ ret.exc = ""
        /\ \A i \in 1..Len(linhas) :
              ComSeq(i) =>
                  LET E == ErrosDaLinha("seq_fora", i)
                      achado == int(Slice(linhas[i], "seq"))
                      previsto == int(Slice(linhas[Anterior(i)], "seq")) + 1
                  IN  IF Anterior(i) # 0 /\ achado # previsto
                      THEN /\ Cardinality(E) = 1
                           /\ \A k \in E : ret.val[k].a = achado /\ ret.val[k].b = previsto
                      ELSE E = {}

\* C7: every CNAB 400 bank validator treats positions 395-400 as one counter:
\* for every record after the first, an out-of-order error is reported if
\* and only if its number is not one more than the number of the record
\* before it.  Stated for the files whose records all have 400 characters and
\* a six-digit decimal number.
C7_Sequencia400 ==
    (/\ op \in Bancos400
     /\ \A i \in NaoBrancas :
           Len(linhas[i]) = 400 /\ Decimal(Slice(linhas[i], "s400")))
    => /\ ret.exc = ""
       /\ \A i \in NaoBrancas : \A p \in NaoBrancas :
             (p < i /\ \A j \in NaoBrancas : ~(p < j /\ j < i))
             => ((ErrosDaLinha("seq_fora", i) # {})
                 <=> (int(Slice(linhas[i], "s400")) # int(Slice(linhas[p], "s400")) + 1))

\* The input without its blank lines.
SemBrancas == SelectSeq(linhas, LAMBDA l : ~AllSpace(l))

\* What a result says, the line numbers left out: the exception, and the kind
\* and the two numbers of each error.
Dito(r) ==
    [ exc |-> r.exc,
      erros |-> [k \in 1..Len(r.val) |-> <<r.val[k].cod, r.val[k].a, r.val[k].b>>] ]

\* C8: blank lines are skipped and never counted: the result of a validator
\* is the one it gives for the same file without the blank lines (same
\* record counts, same header, same errors).
C8_LinhasEmBranco ==
    /\ op = "validar_totais_arquivo_cnab240"
          => Dito(ret) = Dito(validar_totais_arquivo_cnab240(SemBrancas))
    /\ (op = "validar_estrutura_basica_cnab240" /\ NaoBrancas # {})
          => Dito(ret) = Dito(validar_estrutura_basica_cnab240(SemBrancas))

\* C9: for every CNAB 240 file the handler runs exactly one of the two detail
\* validations: the SISDEB decoder when detection selects it, otherwise the
\* generic P/Q validation; never both.
C9_UmCaminho ==
    (op = "validar" /\ ret.val.layout.int /\ ret.val.layout.layout = 240) =>
        LET chamou(nome) == \E k \in 1..Len(ret.val.chamadas) : ret.val.chamadas[k] = nome
            sisdeb == chamou("validar_cnab240_itau_sisdeb")
            generico == chamou("validar_segmentos_por_layout")
        IN  /\ sisdeb \/ generico
            /\ ~(sisdeb /\ generico)
            /\ sisdeb <=> (/\ identificar_banco(linhas[1]) = <<"3", "4", "1">>
                           /\ detectar_cnab240_itau_sisdeb(linhas))

\* C10: the bank-specific CNAB 240 packs (the two of BB and the one of
\* Sicredi) emit only warnings: every error list they return is empty.
C10_SomenteAvisos ==
    /\ (op \in {"validar_convenio_carteira_nosso_numero_bb",
                "validar_segmentos_avancados_bb"} /\ ret.exc = "")
          => ret.val.erros = <<>>
    /\ (op = "validar_cnab240_sicredi" /\ ret.exc = "")
          => ret.val.erros_header = <<>> /\ ret.val.erros_segmentos = <<>>

\* C10, amended: the two packs of BB emit only warnings, their error list is
\* always empty; the pack of Sicredi is not permissive, it reports an error
\* in erros_header whenever the first line does not start with 748.
C10_PacotesBB ==
    /\ (op \in {"validar_convenio_carteira_nosso_numero_bb",
                "validar_segmentos_avancados_bb"} /\ ret.exc = "")
          => ret.val.erros = <<>>
    /\ (op = "validar_cnab240_sicredi" /\ ret.exc = "" /\ Len(linhas) > 0
        /\ Slice(linhas[1], "banco") # Txt748)
          => ret.val.erros_header # <<>>

\* C10 happens: the convenio pack of BB finds a non-numeric convenio and says
\* so in a warning.
C10_Witness ==
    /\ op = "validar_convenio_carteira_nosso_numero_bb"
    /\ \E k \in 1..Len(ret.val.avisos) : ret.val.avisos[k].cod = "convenio_nao_numerico"
    /\ ret.val.erros = <<>>

\* The number of digit characters of the string s.
Digitos(s) == Cardinality({ i \in 1..Len(s) : s[i] \in Dec \cup SupDigit })

DigitosDe(s) == Filtro(s, Dec \cup SupDigit)

\* The check named c fails on the 47 decimal digits d.
Falha(d, c) ==
    CASE c = "campo1" -> modulo10(SubSeq(d, 1, 9)) # DecVal(d[10])
      [] c = "campo2" -> modulo10(SubSeq(d, 11, 20)) # DecVal(d[21])
      [] c = "campo3" -> modulo10(SubSeq(d, 22, 31)) # DecVal(d[32])
      [] c = "dv_geral" ->
            modulo11_boleto(SubSeq(d, 1, 4) \o SubSeq(d, 34, 47) \o SubSeq(d, 5, 9)
                            \o SubSeq(d, 11, 20) \o SubSeq(d, 22, 31)) # DecVal(d[33])

QuatroDVs == {"campo1", "campo2", "campo3", "dv_geral"}

\* The number of errors of the check c in the returned list.
ErrosDoDV(c) == Cardinality({ k \in 1..Len(ret.val.erros) : ret.val.erros[k].cod = c })

\* C12: for every input with exactly 47 digits the four check digits are
\* verified and reported independently, one mismatch error for each failing
\* check whatever the other checks do, and the decoded information (barcode
\* of 44 digits, bank, currency, due date, value) is returned even when
\* checks fail.
C12_QuatroDVsIndependentes ==
    (op = "validar_linha_digitavel_boleto" /\ Digitos(entrada) = 47)
        => /\ ret.exc = ""
           /\ LET d == DigitosDe(entrada)
              IN  /\ \A c \in QuatroDVs : ErrosDoDV(c) = (IF Falha(d, c) THEN 1 ELSE 0)
                  /\ Len(ret.val.erros) = Cardinality({ c \in QuatroDVs : Falha(d, c) })
                  /\ ret.val.infos.chaves = {"codigo_barras", "banco", "moeda", "vencimento",
                                             "valor_centavos", "valor_reais"}
                  /\ Len(ret.val.infos.codigo_barras) = 44
                  /\ ret.val.infos.banco = SubSeq(d, 1, 3)
                  /\ ret.val.infos.moeda = SubSeq(d, 4, 4)
                  /\ Len(ret.val.infos.vencimento) > 0
                  /\ ret.val.infos.valor_centavos = int(SubSeq(d, 38, 47))

\* The string s is the line b with the digit of position i, and no other,
\* changed.
MudaSo(b, s, i) ==
    /\ Len(s) = Len(b)
    /\ s[i] \in Dec \ {b[i]}
    /\ \A j \in 1..Len(b) : j # i => s[j] = b[j]

\* The check of the block that holds the position i.
BlocoDe(i) == IF i <= 10 THEN "campo1" ELSE IF i <= 21 THEN "campo2" ELSE "campo3"

\* C13: from a digitable line whose four check digits pass, changing one
\* digit inside one of the three blocks makes the check of that block fail
\* and no other check fail.
C13_SoOBlocoFalha ==
    op = "validar_linha_digitavel_boleto"
        => \A b \in LinhasBase : \A i \in PosBlocos :
              MudaSo(b, entrada, i)
                  => /\ ret.exc = ""
                     /\ Len(ret.val.erros) = 1
                     /\ ret.val.erros[1].cod = BlocoDe(i)

\* The remainder modulo 11 of the barcode of the 47 digits d.
Resto11(d) ==
    soma11(SubSeq(d, 1, 4) \o SubSeq(d, 34, 47) \o SubSeq(d, 5, 9)
           \o SubSeq(d, 11, 20) \o SubSeq(d, 22, 31), 2) % 11

\* C13, amended: the four checks of the lines of LinhasBase pass; changing
\* one digit inside one of the three blocks makes the check of that block
\* fail and the checks of the other two blocks pass.  The general check
\* passes when the digit changed is the check digit of the block, which is
\* not in the barcode; when it is a data digit of the block, which is in the
\* barcode, the general check fails too, unless the old and the new
\* remainder modulo 11 are both among 0, 1 and 10, which give the digit 1.
C13_BlocoEGeral ==
    op = "validar_linha_digitavel_boleto"
        => /\ entrada \in LinhasBase => ret.exc = "" /\ ret.val.erros = <<>>
           /\ \A b \in LinhasBase : \A i \in PosBlocos :
                 MudaSo(b, entrada, i)
                     => /\ ret.exc = ""
                        /\ \A c \in {"campo1", "campo2", "campo3"} :
                              ErrosDoDV(c) = (IF c = BlocoDe(i) THEN 1 ELSE 0)
                        /\ i \in PosDVs => ErrosDoDV("dv_geral") = 0
                        /\ i \notin PosDVs =>
                              (ErrosDoDV("dv_geral") = 0
                                   <=> {Resto11(b), Resto11(entrada)} \subseteq {0, 1, 10})

\* C13 happens: a data digit of a block is changed and both the check of the
\* block and the general check fail.
C13_Witness ==
    /\ op = "validar_linha_digitavel_boleto"
    /\ \E b \in LinhasBase : \E i \in PosBlocos \ PosDVs : MudaSo(b, entrada, i)
    /\ Len(ret.val.erros) = 2
    /\ ErrosDoDV("dv_geral") = 1

\* C14: for the digitable line of exactly 47 zeros the length check passes,
\* the three modulo-10 block checks fail, and the general modulo-11 digit is
\* computed over the 43 zeros and compared with the digit supplied.
C14_ZerosFalhamOsBlocos ==
    (op = "validar_linha_digitavel_boleto" /\ DigitosDe(entrada) = Fill("0", 47))
        => /\ ret.exc = ""
           /\ ErrosDoDV("tamanho") = 0
           /\ \A c \in {"campo1", "campo2", "campo3"} : ErrosDoDV(c) = 1
           /\ "dv_geral" \in { ret.val.dvs[k] : k \in 1..Len(ret.val.dvs) }
           /\ ErrosDoDV("dv_geral") = (IF modulo11_boleto(Fill("0", 43)) # 0 THEN 1 ELSE 0)

\* C14, amended: for the digitable line of exactly 47 zeros the length check
\* passes and the three modulo-10 block checks pass, the digit computed for
\* a block of zeros being 0, the digit supplied; the general modulo-11 digit
\* is computed over the 43 zeros, it is 1, and compared with the 0 supplied
\* it gives the only error of the result.
C14_ZerosSoOGeralFalha ==
    (op = "validar_linha_digitavel_boleto" /\ DigitosDe(entrada) = Fill("0", 47))
        => /\ ret.exc = ""
           /\ ret.val.dvs = <<"campo1", "campo2", "campo3", "dv_geral">>
           /\ ret.val.erros = <<ErroLinha("dv_geral", 1, 0)>>

\* C14 happens: the line of 47 zeros, bare or with a space after every
\* zero, has been validated and the general check digit is its one error.
C14_Witness ==
    /\ op = "validar_linha_digitavel_boleto"
    /\ entrada \in {Fill("0", 47), Intercala(Fill("0", 47), <<" ">>)}
    /\ Len(ret.val.erros) = 1
    /\ ret.val.erros[1].cod = "dv_geral"

\* C15: the CNPJ check accepts 11.222.333/0001-81 and rejects every string
\* of 14 digits, bare or with the separators, got from it by changing
\* exactly one digit to a different digit.
C15_Cnpj ==
    op = "validar_cnpj"
        => /\ entrada = CnpjBase => ret = Retorno(TRUE)
           /\ \A i \in 1..14 :
                 MudaSo(DigitosDe(CnpjBase), DigitosDe(entrada), i) => ret = Retorno(FALSE)

\* C15 happens: the last digit of the CNPJ, the second check digit, has been
\* changed and the check has rejected the number.
C15_Witness ==
    /\ op = "validar_cnpj"
    /\ MudaSo(DigitosDe(CnpjBase), DigitosDe(entrada), 14)
    /\ ret = Retorno(FALSE)

\* The indices of the Segment P detail lines of the file, in order.
SegmentosP ==
    Ordenados({ i \in 1..Len(linhas) : /\ Slice(linhas[i], "tipo") = <<"3">>
                                       /\ Slice(linhas[i], "seg") = <<"P">> })

\* The field DDMMAAAA is made of decimal digits and is a day of the calendar.
DataDoCalendario(f) ==
    /\ Len(f) = 8
    /\ Decimal(f)
    /\ data_valida(int(SubSeq(f, 5, 8)), int(SubSeq(f, 3, 4)), int(SubSeq(f, 1, 2)))

\* DDMMAAAA written DD/MM/AAAA.
ComBarras(f) == SubSeq(f, 1, 2) \o <<"/">> \o SubSeq(f, 3, 4) \o <<"/">> \o SubSeq(f, 5, 8)

\* C16: exactly one title is produced for each Segment P line, and for every
\* Segment P line with a due date DDMMAAAA of the calendar and a value field
\* of digits only, its title has that date written DD/MM/AAAA in
\* data_vencimento_str and the field read as integer cents as its value.
C16_TituloPorSegmentoP ==
    op = "listar_titulos_cnab240"
        => /\ ret.exc = ""
           /\ Len(ret.val) = Len(SegmentosP)
           /\ \A k \in 1..Len(SegmentosP) :
                 LET l == linhas[SegmentosP[k]]
                     venc == Slice(l, "data_vencimento")
                     valor == Slice(l, "valor_titulo")
                 IN  (DataDoCalendario(venc) /\ Decimal(valor))
                        => /\ ret.val[k].data_vencimento_str = ComBarras(venc)
                           /\ ret.val[k].valor_centavos = int(valor)
                           /\ ret.val[k].valor_reais = <<int(valor) \div 100, int(valor) % 100>>

\* C17: there is no shared mutable state across runs: a run modifies neither
\* the line sequence it is given nor a module-level table, so that running
\* a validator again on the same lines returns the result of the first run.
C17_SemEstadoPartilhado ==
    /\ [][linhas' = linhas /\ tabelas' = tabelas]_vars
    /\ [](antes # <<>> => ret = antes[1].ret)

\* The date-time that the six decimal digits DDMMYY denote, the years 70 to
\* 99 being 19YY and the years 00 to 69 being 20YY.
DataDDMMYY(v) ==
    LET yy == int(SubSeq(v, 5, 6))
    IN  << (IF yy >= 70 THEN 1900 ELSE 2000) + yy, int(SubSeq(v, 3, 4)), int(SubSeq(v, 1, 2)) >>

\* The six decimal digits v denote a day of the calendar.
DataReal(v) ==
    /\ Len(v) = 6
    /\ Decimal(v)
    /\ data_valida(DataDDMMYY(v)[1], DataDDMMYY(v)[2], DataDDMMYY(v)[3])

\* C18: for every input string the CNAB 400 date parser returns the
\* date-time of the day, month and two-digit year of the stripped string
\* when it is six digits that denote a real date, and returns None
\* otherwise: for the empty string, for 000000, for a string that is not
\* exactly six digits, for an impossible date such as 320299.
C18_ParseDataCnab400 ==
    op = "_parse_data_cnab400"
        => /\ ret.exc = ""
           /\ ret.val = (IF DataReal(strip(entrada)) THEN DataDDMMYY(strip(entrada)) ELSE None)

\* The optional and message record types of each bank's CNAB 400 layout.
TiposOpcionais(banco) ==
    CASE banco = "bb" -> {"5"}
      [] banco = "banestes" -> {"5"}
      [] banco = "itau" -> {"2", "5", "6", "7", "8"}
      [] banco = "bradesco" -> {"2", "5", "7"}
      [] banco = "santander" -> {"2", "5", "7"}
      [] banco = "caixa" -> {"2", "7", "8"}
      [] banco = "sicredi" -> {"2", "5", "6", "7", "8"}
      [] OTHER -> {}

\* The records of 400 characters, and among them the details and the
\* optional records of the bank whose validator ran.
Registros400 == { i \in NaoBrancas : Len(linhas[i]) = 400 }

EhDetalhe(i) == linhas[i][1] = (IF op = "bb" THEN "7" ELSE "1")

EhOpcional(i) == linhas[i][1] \in TiposOpcionais(op)

\* The line of the last detail record before line i, 0 when there is none.
DetalheAntes(i) ==
    LET D == { d \in Registros400 : d < i /\ EhDetalhe(d) }
    IN  IF D = {} THEN 0 ELSE CHOOSE d \in D : \A e \in D : e <= d

\* C19: in every CNAB 400 bank validator, an optional or message record
\* (types 2, 5, 6, 7, 8 as used by the bank) that comes before any detail
\* record gives an error; one that comes after a detail record gives no such
\* error and is attached to the most recently seen detail record.
C19_OpcionalAposDetalhe ==
    op \in Bancos400
        => /\ ret.exc = ""
           /\ \A i \in Registros400 :
                 EhOpcional(i) =>
                     /\ (ErrosDaLinha("opcional_sem_detalhe", i) # {}) <=> (DetalheAntes(i) = 0)
                     /\ DetalheAntes(i) # 0 =>
                            \E k \in 1..Len(ret.val.anexos) :
                                ret.val.anexos[k] = [opcional |-> i, detalhe |-> DetalheAntes(i)]

\* The detail records of segment Q, R, S or Y, and those of segment P.
SegmentosQRSY ==
    { i \in NaoBrancas :
        /\ Slice(linhas[i], "tipo") = <<"3">>
        /\ upper(Slice(linhas[i], "seg")) \in {<<"Q">>, <<"R">>, <<"S">>, <<"Y">>} }

EhSegmentoP(j) ==
    Slice(linhas[j], "tipo") = <<"3">> /\ upper(Slice(linhas[j], "seg")) = <<"P">>

\* Line i comes after a Segment P of its own batch: a Segment P with the same
\* batch number, with no batch header or trailer between the two.
PrecedidoPorP(i) ==
    \E j \in 1..(i - 1) :
        /\ EhSegmentoP(j)
        /\ Slice(linhas[j], "lote") = Slice(linhas[i], "lote")
        /\ \A k \in (j + 1)..(i - 1) :
              Slice(linhas[k], "tipo") \notin {<<"1">>, <<"5">>}

ErroDeOrdem(i) ==
    \E k \in 1..Len(ret.val.erros_segmentos) :
        /\ ret.val.erros_segmentos[k].linha = i
        /\ ret.val.erros_segmentos[k].cod \in {"q_antes_de_p", "sem_p_anterior"}

\* C20: in the Sicredi CNAB 240 rule pack, every Q, R, S or Y segment that is
\* not preceded by a Segment P within the same batch gives an ordering error;
\* a Segment P of an earlier batch never satisfies the requirement for a
\* segment of a later batch.
C20_SegmentoAposP ==
    op = "validar_cnab240_sicredi"
        => /\ ret.exc = ""
           /\ \A i \in SegmentosQRSY : ~PrecedidoPorP(i) => ErroDeOrdem(i)

(***************************************************************************)
(* C21-C30.                                                                *)
(***************************************************************************)
\* The non-blank lines with "3" at position 8.
Tipo3 == { i \in 1..Len(linhas) : ~EmBranco(linhas[i]) /\ Slice(linhas[i], "tipo") = <<"3">> }

\* The first of a non-empty set of line numbers.
Primeira(S) == CHOOSE i \in S : \A j \in S : i <= j

\* C21: detectar_cnab240_itau_sisdeb is decided by the first type-3 line of
\* the file alone: it returns True if and only if the file has a type-3
\* line and the segment code (position 14) of the first of them is "A".
C21_PrimeiroTipo3 ==
    op = "detectar_cnab240_itau_sisdeb" =>
        (ret.val <=> /\ Tipo3 # {}
                     /\ Slice(linhas[Primeira(Tipo3)], "seg") = <<"A">>)

\* The type-3 lines the detection looks at: those of 14 characters or more.
Tipo3Com14 == { i \in Tipo3 : Len(linhas[i]) >= 14 }

\* C21 as the code has it: the decision is that of the first type-3 line of
\* at least 14 characters, whose segment code is compared without regard to
\* case; shorter type-3 lines are passed over.
C21_PrimeiroTipo3Com14 ==
    op = "detectar_cnab240_itau_sisdeb" =>
        (ret.val <=> /\ Tipo3Com14 # {}
                     /\ Slice(linhas[Primeira(Tipo3Com14)], "seg") \in {<<"A">>, <<"a">>})

\* A later Segment A line follows a first type-3 line of another segment,
\* and the file is not selected.
C21_Witness ==
    /\ op = "detectar_cnab240_itau_sisdeb"
    /\ ~ret.val
    /\ Cardinality(Tipo3Com14) >= 2
    /\ \E i \in Tipo3Com14 : Slice(linhas[i], "seg") = <<"A">>

\* The Segment Q and R lines that lie within the two lines that follow a
\* Segment P of their batch.
SegmentosQR ==
    { j \in 1..Len(linhas) :
        /\ Slice(linhas[j], "tipo") = <<"3">>
        /\ Slice(linhas[j], "seg") \in {<<"Q">>, <<"R">>}
        /\ \E k \in 1..Len(SegmentosP) :
              /\ j - SegmentosP[k] \in 1..2
              /\ Slice(linhas[SegmentosP[k]], "lote") = Slice(linhas[j], "lote") }

\* The nearest Segment P of the batch of the line j before it.
PMaisProximo(j) ==
    LET antes_de_j == { i \in 1..(j - 1) :
                          /\ \E k \in 1..Len(SegmentosP) : SegmentosP[k] = i
                          /\ Slice(linhas[i], "lote") = Slice(linhas[j], "lote") }
    IN  CHOOSE i \in antes_de_j : \A m \in antes_de_j : m <= i

\* The title t carries what the line j holds: the name of the payer of a
\* Segment Q, the value of the second discount of a Segment R.
Traz(t, j) ==
    IF Slice(linhas[j], "seg") = <<"Q">>
    THEN /\ t.sacado_nome # <<>>
         /\ t.sacado_nome \o Fill(" ", 40 - Len(t.sacado_nome)) = Slice(linhas[j], "nome_sacado")
    ELSE LET v == SubSeq(linhas[j], 27, 41)
         IN  /\ Decimal(v) /\ int(v) > 0
             /\ t.r_desc2.valor_reais = <<int(v) \div 100, int(v) % 100>>

\* C22: each Segment Q or R within the two lines after a Segment P of its
\* batch is associated with the title of the nearest Segment P of the batch
\* before it, and with no other title: another title carries such data only
\* when it has a Segment Q or R of its own.
C22_QRDoPMaisProximo ==
    (op = "listar_titulos_cnab240" /\ ret.exc = "" /\ Len(ret.val) = Len(SegmentosP))
        => \A j \in SegmentosQR : \A k \in 1..Len(SegmentosP) :
              IF SegmentosP[k] = PMaisProximo(j)
              THEN Traz(ret.val[k], j)
              ELSE Traz(ret.val[k], j)
                      => \E m \in SegmentosQR \ {j} :
                            /\ Slice(linhas[m], "seg") = Slice(linhas[j], "seg")
                            /\ PMaisProximo(m) = SegmentosP[k]

\* The detail lines of the Segments P and Q, the segments of the layout.
DetalhesDoLayout ==
    { i \in 1..Len(linhas) : /\ ~EmBranco(linhas[i])
                             /\ Slice(linhas[i], "tipo") = <<"3">>
                             /\ Slice(linhas[i], "seg") \in {<<"P">>, <<"Q">>} }

\* The errors and the warnings reported for the field campo of the line i.
DoCampo(lista, i, campo) ==
    { k \in 1..Len(lista) : lista[k].linha = i /\ lista[k].campo = campo }

ErrosDoCampo(i, campo) ==
    IF ret.exc # "" THEN {} ELSE DoCampo(ret.val.erros, i, campo)

AvisosDoCampo(i, campo) ==
    IF ret.exc # "" THEN {} ELSE DoCampo(ret.val.avisos, i, campo)

\* The bank of the file has a layout of segments.
BancoComLayout == Slice(linhas[1], "banco") \in tabelas.LAYOUTS_CNAB240

\* C23: the generic validation of segments checks every non-blank
\* data_ddmmaaaa field (the due date of the Segment P) against the calendar
\* and the years 1900 to 2099: an error is reported for the field if and
\* only if it is not a day of the calendar within those years.
C23_DataDoCalendario ==
    (op = "validar_segmentos_por_layout" /\ BancoComLayout)
        => \A i \in DetalhesDoLayout :
              LET f == Slice(linhas[i], "data_vencimento")
              IN  (Slice(linhas[i], "seg") = <<"P">> /\ ~AllSpace(f))
                     => (ErrosDoCampo(i, "data_vencimento") # {}
                            <=> ~(/\ DataDoCalendario(f)
                                  /\ int(SubSeq(f, 5, 8)) \in 1900..2099))

\* The fields LAYOUT_CNAB240_COMUM_PQ registers for the segment of a line,
\* and those of them that are required.
CamposRegistrados(i) ==
    IF Slice(linhas[i], "seg") = <<"P">>
    THEN {"nosso_numero", "data_vencimento", "valor_titulo"}
    ELSE {"tipo_inscricao", "documento_sacado", "nome_sacado", "endereco_sacado",
          "bairro_sacado", "cep_sacado", "cidade_sacado", "uf_sacado"}

Obrigatorio(campo) == campo # "bairro_sacado"

\* C24: for every registered field of every detail line of a segment of the
\* layout, a blank field gives exactly one error, that of the required field
\* left blank, when it is required; it gives no error and no warning when it
\* is optional; no type rule adds an error or a warning for a blank field.
C24_CampoEmBranco ==
    (op = "validar_segmentos_por_layout" /\ BancoComLayout)
        => \A i \in DetalhesDoLayout : \A campo \in CamposRegistrados(i) :
              AllSpace(Slice(linhas[i], campo))
                 => /\ AvisosDoCampo(i, campo) = {}
                    /\ IF Obrigatorio(campo)
                       THEN /\ Cardinality(ErrosDoCampo(i, campo)) = 1
                            /\ \A k \in ErrosDoCampo(i, campo) :
                                  ret.val.erros[k].cod = "obrigatorio_em_branco"
                       ELSE ErrosDoCampo(i, campo) = {}

\* The batch header the convenio pack reads for the line i: the last type-1
\* line of the file with the batch number of the line, 0 when there is none.
HeaderDoLote(i, minimo) ==
    Maior({ j \in 1..Len(linhas) : /\ Len(linhas[j]) >= minimo
                                   /\ Slice(linhas[j], "tipo") = <<"1">>
                                   /\ Slice(linhas[j], "lote") = Slice(linhas[i], "lote") })

\* The significant digits of the convenio of a batch header.
ConvenioDe(j) ==
    LET c == strip(Slice(linhas[j], "convenio"))
        nao_zero == { k \in 1..Len(c) : c[k] # "0" }
    IN  IF nao_zero = {} THEN <<>>
        ELSE SubSeq(c, CHOOSE k \in nao_zero : \A m \in nao_zero : k <= m, Len(c))

\* The Segment P lines of at least minimo characters with a Nosso Numero
\* that is not blank, in a batch whose header, of at least minimo characters,
\* has a numeric convenio.
SegmentosPComConvenio(minimo) ==
    { i \in 1..Len(linhas) :
        /\ Len(linhas[i]) >= minimo
        /\ Slice(linhas[i], "tipo") = <<"3">>
        /\ Slice(linhas[i], "seg") = <<"P">>
        /\ ~AllSpace(Slice(linhas[i], "nosso_numero"))
        /\ HeaderDoLote(i, minimo) # 0
        /\ isdigit(strip(Slice(linhas[HeaderDoLote(i, minimo)], "convenio"))) }

AvisosDaLinha(cod, i) ==
    { k \in 1..Len(ret.val.avisos) : ret.val.avisos[k].cod = cod /\ ret.val.avisos[k].linha = i }

\* The rules of the Nosso Numero for the Segment P lines of at least minimo
\* characters: the warning of the length when the convenio has 4 or 6
\* digits and the Nosso Numero has not 12, or the convenio has 7 and the
\* Nosso Numero has not 17; a warning when the digits of the Nosso Numero do
\* not start with the convenio (the warning of the prefix or, for a Nosso
\* Numero with fewer digits than the convenio, that of the length).
RegrasDoNossoNumero(minimo) ==
    op = "validar_convenio_carteira_nosso_numero_bb"
        => \A i \in SegmentosPComConvenio(minimo) :
              LET conv == ConvenioDe(HeaderDoLote(i, minimo))
                  nn == so_digitos(Slice(linhas[i], "nosso_numero"))
                  esperado_nn == IF Len(conv) = 7 THEN 17 ELSE 12
              IN  Len(conv) \in {4, 6, 7}
                     => /\ Len(nn) # esperado_nn => AvisosDaLinha("nn_tamanho", i) # {}
                        /\ SubSeq(nn, 1, Min(Len(conv), Len(nn))) # conv
                              => \/ AvisosDaLinha("nn_prefixo", i) # {}
                                 \/ Len(nn) < Len(conv) /\ AvisosDaLinha("nn_tamanho", i) # {}

\* C25: for every Segment P with a non-blank Nosso Numero in a batch whose
\* header has a numeric convenio, a warning is emitted when the convenio has
\* 4 or 6 significant digits and the Nosso Numero has not 12 digits, when the
\* convenio has 7 and the Nosso Numero has not 17, and when the Nosso Numero
\* does not start with the convenio.
C25_NossoNumeroDoConvenio == RegrasDoNossoNumero(0)

\* C25 for the lines the pack reads: the Segment P lines and the batch
\* headers of at least 60 characters.
C25_NossoNumeroDoConvenio60 == RegrasDoNossoNumero(60)

\* A Nosso Numero of the right length that does not start with the convenio
\* gets the warning of the prefix and not that of the length.
C25_Witness ==
    /\ op = "validar_convenio_carteira_nosso_numero_bb"
    /\ \E i \in SegmentosPComConvenio(60) :
          /\ AvisosDaLinha("nn_prefixo", i) # {}
          /\ AvisosDaLinha("nn_tamanho", i) = {}

(***************************************************************************)
(* C26-C29: the headers, the trailers and the titles of CNAB 400.          *)
(***************************************************************************)
\* The records of 400 characters of one type.
RegistrosDoTipo(tipo) ==
    { i \in 1..Len(linhas) : Len(linhas[i]) = 400 /\ tipo_registro(linhas[i]) = <<tipo>> }

\* The digits of a field as a number, when the field holds decimal digits only.
SoDecimais(s) == Len(s) > 0 /\ \A k \in 1..Len(s) : s[k] \in Dec

\* The sum of the values (positions 127-139) of a set of records.
RECURSIVE SomaDosValores(_)
SomaDosValores(S) ==
    IF S = {} THEN 0
    ELSE LET i == CHOOSE x \in S : TRUE
             v == strip(campo_cnab400(linhas[i], 127, 139))
         IN  (IF SoDecimais(v) THEN int(v) ELSE 0) + SomaDosValores(S \ {i})

\* What a trailer declares: the number of titles and the total value.
QtdDeclarada(i) == strip(campo_cnab400(linhas[i], 18, 25))

ValorDeclarado(i) == strip(campo_cnab400(linhas[i], 26, 39))

\* C26: in the Banestes CNAB 400 validator, whenever the number of titles
\* or the total value declared by the trailer differs from the figure
\* recomputed from the type-1 records, the matching warning is emitted.
C26_AvisoDoTrailer ==
    (op = "banestes" /\ ret.exc = "") =>
        \A i \in RegistrosDoTipo("9") :
            /\ (SoDecimais(QtdDeclarada(i))
                /\ int(QtdDeclarada(i)) # Cardinality(RegistrosDoTipo("1")))
               => \E k \in 1..Len(ret.val.avisos) : ret.val.avisos[k] = "trailer_qtd_titulos"
            /\ (SoDecimais(ValorDeclarado(i))
                /\ int(ValorDeclarado(i)) # SomaDosValores(RegistrosDoTipo("1")))
               => \E k \in 1..Len(ret.val.avisos) : ret.val.avisos[k] = "trailer_valor_total"

(***************************************************************************)
(* C27: the record count of a batch of the direct-debit layout.            *)
(***************************************************************************)
\* The lines of type 1, 3 or 5 the validator reads, by their batch number.
RegistrosDoLote(lote) ==
    { j \in 1..Len(linhas) : /\ ~EmBranco(linhas[j]) /\ Len(linhas[j]) >= 8
                             /\ Slice(linhas[j], "tipo") \in { <<"1">>, <<"3">>, <<"5">> }
                             /\ Slice(linhas[j], "lote") = lote }

\* The batch trailers that come after a header of their batch and declare
\* a count in decimal digits.
TrailersComparados ==
    { i \in 1..Len(linhas) :
        /\ i \in RegistrosDoLote(Slice(linhas[i], "lote"))
        /\ Slice(linhas[i], "tipo") = <<"5">>
        /\ SoDecimais(strip(Slice(linhas[i], "q18")))
        /\ \E j \in RegistrosDoLote(Slice(linhas[i], "lote")) :
              j < i /\ Slice(linhas[j], "tipo") = <<"1">> }

\* The lines of the batch of the trailer i from the start of the file up to
\* and including the trailer.
ContagemAteOTrailer(i) ==
    Cardinality({ j \in RegistrosDoLote(Slice(linhas[i], "lote")) : j <= i })

ErrosDeContagem(i) ==
    { k \in 1..Len(ret.val.erros_trailer) :
        /\ ret.val.erros_trailer[k].cod = "qtd_registros_lote"
        /\ ret.val.erros_trailer[k].linha = i }

\* C27: in the direct-debit validator of Itau, the count compared with the
\* count a batch trailer declares is the number of lines of type 1, 3 or 5
\* with that batch number from the start of the file up to and including
\* the trailer: the trailer is reported exactly when it declares another
\* number, and the report carries that count.
C27_ContagemDoLote ==
    (op = "validar_cnab240_itau_sisdeb" /\ ret.exc = "") =>
        \A i \in TrailersComparados :
            /\ (ErrosDeContagem(i) # {})
                   <=> (int(strip(Slice(linhas[i], "q18"))) # ContagemAteOTrailer(i))
            /\ \A k \in ErrosDeContagem(i) :
                   ret.val.erros_trailer[k].b = ContagemAteOTrailer(i)

(***************************************************************************)
(* C28: the header and the trailer of a CNAB 400 file.                     *)
(***************************************************************************)
\* The validators of the layouts with a header and a trailer record.
BancosComTrailer == Bancos400 \ {"brb"}

\* The lines that start with the character of a record type.
ComecamCom(tipo) ==
    { i \in 1..Len(linhas) : ~EmBranco(linhas[i]) /\ tipo_registro(linhas[i]) = <<tipo>> }

TemErro(erros, cod) == \E k \in 1..Len(erros) : erros[k] = cod

\* C28: every CNAB 400 validator of a layout with a trailer reports an
\* error when the file has no header record, no trailer record, more than
\* one header record or more than one trailer record.
C28_HeaderETrailer ==
    (op \in BancosComTrailer /\ ret.exc = "") =>
        /\ ComecamCom("0") = {} => TemErro(ret.val.erros_header, "sem_header")
        /\ ComecamCom("9") = {} => TemErro(ret.val.erros_trailer, "sem_trailer")
        /\ Cardinality(RegistrosDoTipo("0")) > 1
               => TemErro(ret.val.erros_header, "mais_de_um_header")
        /\ Cardinality(RegistrosDoTipo("9")) > 1
               => TemErro(ret.val.erros_trailer, "dois_trailers")

(***************************************************************************)
(* C29: the resumo against the list of titles.                             *)
(***************************************************************************)
\* The sum of the cents of a list of titles, from the last title back.
RECURSIVE CentavosDosTitulos(_)
CentavosDosTitulos(ts) ==
    IF Len(ts) = 0 THEN 0
    ELSE ts[Len(ts)].valor_centavos + CentavosDosTitulos(SubSeq(ts, 1, Len(ts) - 1))

ResumoConfere(resumo, ts) ==
    /\ resumo.qtd_titulos = Len(ts)
    /\ resumo.valor_total_centavos = CentavosDosTitulos(ts)

\* The validators that return their own titles and resumo.
ComTitulosEResumo == Bancos400 \cup {"validar_cnab240_itau_sisdeb"}

PassosComTitulosEResumo == {"validar_cnab400", "validar_cnab240_itau_sisdeb"}

\* C29: in every result the resumo agrees with the list of titles: its
\* number of titles is the length of the list and its total in cents is the
\* sum of the cents of the titles of the list.  This is so in the result of
\* a CNAB 400 validator and of the direct-debit validator, between
\* gerar_resumo_remessa_cnab240 and listar_titulos_cnab240 on the same file,
\* and in what the handler of /validar collects from them.
C29_ResumoConfereComTitulos ==
    /\ (op \in ComTitulosEResumo /\ ret.exc = "")
            => ResumoConfere(ret.val.resumo, ret.val.titulos)
    /\ (op = "gerar_resumo_remessa_cnab240" /\ ret.exc = "")
            => LET lista == listar_titulos_cnab240(identificar_banco(linhas[1]), linhas)
               IN  lista.exc = "" => ResumoConfere(ret.val, lista.val)
    /\ (op = "validar" /\ ret.exc = "")
            => \A k \in 1..Len(ret.val.chamadas) :
                  /\ ret.val.chamadas[k] \in PassosComTitulosEResumo
                        => ResumoConfere(ret.val.resultados[k].val.resumo,
                                         ret.val.resultados[k].val.titulos)
                  /\ ret.val.chamadas[k] = "gerar_resumo_remessa_cnab240"
                        => \A m \in 1..Len(ret.val.chamadas) :
                              ret.val.chamadas[m] = "listar_titulos_cnab240"
                                 => ResumoConfere(ret.val.resultados[k].val,
                                                  ret.val.resultados[m].val)

\* Two titles or more with a total above zero: from a validator of its own
\* titles, from the summary of the Segments P, and from the handler.
C29_Witness ==
    \/ /\ op \in ComTitulosEResumo /\ ret.exc = ""
       /\ Len(ret.val.titulos) >= 2 /\ ret.val.resumo.valor_total_centavos > 0
    \/ /\ op = "gerar_resumo_remessa_cnab240" /\ ret.exc = ""
       /\ ret.val.qtd_titulos >= 2 /\ ret.val.valor_total_centavos > 0

(***************************************************************************)
(* C30: the Segment R checks of the advanced rule pack of BB.              *)
(***************************************************************************)
\* A Segment R line of type 3 with 160 characters or more.
SegmentoR160(l) == Len(l) >= 160 /\ l[8] = "3" /\ l[14] = "R"

\* The warning a is among the warnings returned.
Avisado(a, avisos) == \E j \in 1..Len(avisos) : avisos[j] = a

\* C30: the advanced rule pack of BB applies its Segment R checks (second
\* and third discount, fine, automatic debit) to every Segment R line of
\* type 3 with 160 characters or more: each rule the line violates has its
\* warning, with the number of the line, among the warnings returned.
C30_RegrasDoSegmentoR ==
    (op = "validar_segmentos_avancados_bb" /\ ret.exc = "")
        => \A i \in 1..Len(linhas) :
              SegmentoR160(linhas[i])
                 => \A k \in 1..Len(avisos_avancados_r_bb(linhas[i], i)) :
                       Avisado(avisos_avancados_r_bb(linhas[i], i)[k], ret.val.avisos)

====
